---- MODULE Spec2Model ----
(***************************************************************************)
(* Model of the completion gateway (BaseAIService: credential pool,        *)
(* model/credential fallback) and of the progress stream emitter           *)
(* (process_resumes_stream / process_jobs_stream) of matchwise-ai-agent.   *)
(***************************************************************************)
EXTENDS Integers, Sequences, FiniteSets, TLC

(* ------------------------------ bounds --------------------------------- *)
\* largest credential pool a reload can load
MaxKeys == 3
\* number of get_completion calls run one after another
MaxCalls == 2
\* largest batch handed to the progress stream
MaxItems == 3
\* longest enumerated value of a Score or Missing Skills line
MaxValueLen == 3

(* ------------------------- program constants --------------------------- *)
\* len(BaseAIService.MODELS)
NumModels == 5
\* retry_delay default of _try_model_completion (seconds)
retry_delay == 2
\* max_retry_attempts default of _try_model_completion
max_retry_attempts == 2

VARIABLES
    \* ---- BaseAIService instance ----
    api_keys,            \* self._api_keys, keys named by their 1-based position
    current_key_index,   \* self._current_key_index (0-based)
    \* ---- the get_completion call in progress ----
    pc,                  \* "idle" | "attempt" | "done" (a call has just returned)
    model,               \* model of the for loop of get_completion (1-based)
    original_key_index,  \* local of _try_model_completion
    retry_cycle,         \* local of _try_model_completion
    key_attempt,         \* local of _try_model_completion
    rate_limited_count,  \* local of _try_model_completion
    result,              \* how the last finished call ended
    calls,               \* number of get_completion calls started
    loaded,              \* number of keys the last reload found (-1: the constructor's load)
    attempts,            \* requests of this call: on the model of the last one, and in all
    tried,               \* the current cycle so far: the keys requested, in order, and
                         \* whether every request was answered by a rate-limit error
    wait,                \* the sleep made after the last request
    last_ok,             \* index of the credential whose request last returned (-1: none
                         \* yet, or the index was moved by a rotation or a reload since)
    rotated,             \* the last _next_key call: index before, index of the key returned
    entry,               \* this call: the index after its reload, and whether some request
                         \* of it returned an empty text
    \* ---- history of the attempts (observation only) ----
    last,                \* the last attempt made: model, key index, class
    some_ok,             \* some attempt of this call returned a non-empty text
    all_auth,            \* every failed attempt of this call so far was an authorization error
    scen,                \* pool of 2, key #1 always rate-limited, key #2 always successful
    \* ---- progress stream ----
    spc,                 \* position of the generator
    total,               \* len(resumes) / len(job_descriptions)
    index,               \* index of the for loops (0-based)
    results,             \* the results list
    events,              \* the events yielded so far
    progress,            \* the progress dict of the item being processed
    minimum_score,
    max_missing_skills,
    direction,           \* "resumes" (process_resumes_stream) | "jobs" (process_jobs_stream)
    connected,           \* the consumer of the event stream is still there
    \* ---- one parse_structured_response call ----
    ppc,                 \* "off" | "input" | "returned" | "raised"
    text,                \* the argument `result`
    parsed,              \* the dict returned
    \* ---- the request of one get_completion call ----
    rpc,                 \* "off" | "input" | "sent" | "raised"
    call_args,           \* completion_type, custom_system_message, keys of **kwargs
    request,             \* messages and keyword arguments of completions.create
    \* ---- get_completion calls running concurrently on one instance ----
    procs,               \* the locals and position of each call
    \* ---- the job descriptions of one analyze_jobs_stream request ----
    jpc,                 \* "off" | "form" | "rejected" | "analyze" | "email" | "closed"
    job_form,            \* job_texts and job_files of the request
    job_descriptions,    \* the list built from the form
    job_results,         \* results of process_jobs_stream
    email_index,         \* position of the email loop
    lookups              \* the job_text found for each application email called for

gvars == <<api_keys, current_key_index, pc, model, original_key_index, retry_cycle,
           key_attempt, rate_limited_count, result, calls, last, some_ok, all_auth, scen, loaded,
           attempts, tried, wait, last_ok, rotated, entry>>
svars == <<spc, total, index, results, events, progress, minimum_score, max_missing_skills,
           direction, connected>>
pvars == <<ppc, text, parsed>>
rvars == <<rpc, call_args, request>>
cvars == <<procs>>
jvars == <<jpc, job_form, job_descriptions, job_results, email_index, lookups>>
vars == <<gvars, svars, pvars, rvars, cvars, jvars>>

(* =========================== credential pool =========================== *)

\* the key lists the credential source can hold: GROQ_API_KEY_1 .. GROQ_API_KEY_n
KeyLists == { [i \in 1..n |-> i] : n \in 0..MaxKeys }

\* _refresh_api_keys on a source holding `keys`: raises ValueError (state
\* untouched) when no key is found, else replaces the list and resets an
\* out-of-range index to 0.
RefreshRaises_Never(keys) == FALSE
RefreshRaises(keys) == Len(keys) = 0
RefreshedIndex_Keeps(keys, idx) == idx
RefreshedIndex(keys, idx) == IF idx >= Len(keys) THEN 0 ELSE idx

\* no _next_key call has been made since the last reload
NoRotation == [from |-> -1, to |-> -1]

\* no call is running or has just returned
NoEntry == [index |-> 0, empty |-> FALSE]

\* _refresh_api_keys run on its own on a source holding `src`: when it
\* raises, the ValueError goes to its caller and the instance is untouched
RefreshApiKeys(src) ==
    /\ pc \in {"idle", "done"}
    /\ pc' = "idle"
    /\ loaded' = Len(src)
    /\ IF RefreshRaises(src)
       THEN UNCHANGED <<api_keys, current_key_index, scen>>
       ELSE /\ api_keys' = src
            /\ current_key_index' = RefreshedIndex(src, current_key_index)
            /\ scen' = IF Len(src) = 2 THEN scen ELSE "off"
    /\ last_ok' = IF current_key_index' = current_key_index THEN last_ok ELSE -1
    /\ rotated' = NoRotation
    /\ entry' = NoEntry
    /\ UNCHANGED <<model, original_key_index, retry_cycle, key_attempt,
                   rate_limited_count, result, calls, last, some_ok, all_auth,
                   attempts, tried, wait>>
    /\ UNCHANGED <<svars, pvars, rvars, cvars, jvars>>

\* _next_key: rotate to the next credential
NextKey ==
    /\ pc \in {"idle", "done"}
    /\ pc' = "idle"
    /\ current_key_index' = (current_key_index + 1) % Len(api_keys)
    /\ rotated' = [from |-> current_key_index, to |-> current_key_index']
    /\ last_ok' = -1
    /\ scen' = "off"
    /\ entry' = NoEntry
    /\ UNCHANGED <<api_keys, model, original_key_index, retry_cycle, key_attempt,
                   rate_limited_count, result, calls, last, some_ok, all_auth, loaded,
                   attempts, tried, wait>>
    /\ UNCHANGED <<svars, pvars, rvars, cvars, jvars>>

(* ============================ backend outcome ========================== *)

\* What one backend request can do: return a non-empty text, return an empty
\* text, run into the timeout, or raise an error whose text carries any
\* combination of the substrings the handler looks for.
Signals == {"rate", "auth", "model"}
Outcomes == { [kind |-> k, sig |-> {}] : k \in {"ok", "empty", "timeout"} }
            \cup { [kind |-> "error", sig |-> s] : s \in SUBSET Signals }

\* lines 191-228: the if/elif chain over the lower-cased error text
ErrorClass_ModelFirst(sig) ==
    IF "model" \in sig THEN "model"
    ELSE IF "rate" \in sig THEN "rate"
    ELSE IF "auth" \in sig THEN "auth"
    ELSE "other"
ErrorClass(sig) ==
    IF "rate" \in sig THEN "rate"
    ELSE IF "auth" \in sig THEN "auth"
    ELSE IF "model" \in sig THEN "model"
    ELSE "other"

\* the except chain of _try_model_completion
Classify_ModelAsOther(o) ==
    IF o.kind = "ok" THEN "ok"
    ELSE IF o.kind = "empty" THEN "empty"
    ELSE IF o.kind = "timeout" THEN "timeout"
    ELSE IF "rate" \in o.sig THEN "rate"
    ELSE IF "auth" \in o.sig THEN "auth"
    ELSE "other"
Classify(o) ==
    IF o.kind = "ok" THEN "ok"
    ELSE IF o.kind = "empty" THEN "empty"
    ELSE IF o.kind = "timeout" THEN "timeout"
    ELSE ErrorClass(o.sig)

NoAttempt == [model |-> 0, key |-> 0, class |-> "none", sig |-> {}]
\* how a call ended; error is the last_error the raised exception carries
\* ("none": last_error is None, the message has no "Last error:" part)
NoResult == [kind |-> "none", model |-> 0, error |-> "none"]
Text(m) == [kind |-> "text", model |-> m, error |-> "none"]
\* lines 286-306: last_error is only set by the except of get_completion, and
\* _try_model_completion catches every exception of its requests itself
Raised == [kind |-> "raise", model |-> 0, error |-> "none"]

\* the sleeps of _try_model_completion
NoWait == [kind |-> "none", seconds |-> 0]
\* asyncio.sleep(retry_delay), lines 184, 199, 213, 227
Delay == [kind |-> "delay", seconds |-> retry_delay]
\* lines 150-154: asyncio.sleep(retry_delay * (2 ** retry_cycle))
Backoff_Flat(cycle) == [kind |-> "backoff", seconds |-> retry_delay]
Backoff(cycle) == [kind |-> "backoff", seconds |-> retry_delay * (2 ^ cycle)]

\* a cycle in which no request has been made yet
NoneTried == [keys |-> <<>>, all_rate |-> TRUE]

\* attempt counters of a call that has made no request yet
NoAttempts == [on |-> 0, total |-> 0]

(* ========================== completion gateway ========================= *)

\* get_completion, lines 301-306: every model has been tried
ExhaustedResult_ReturnsEmpty == [kind |-> "text", model |-> 0, error |-> "none"]
ExhaustedResult == Raised

\* the for loop of get_completion over MODELS
NextModel_Skips(m) == IF m + 2 <= NumModels THEN m + 2 ELSE m + 1
NextModel(m) == m + 1

\* _try_model_completion, line 160
KeyIndex_StartsAfter(orig, attempt, n) == (orig + attempt + 1) % n
KeyIndex(orig, attempt, n) == (orig + attempt) % n

\* the index a successful attempt leaves behind (line 165; the return of
\* line 180 restores nothing)
IndexAfterSuccess_Restored(key_index, orig) == orig
IndexAfterSuccess(key_index, orig) == key_index

\* get_completion, line 291: `if result:` on what _try_model_completion
\* returned at line 180
Truthy_AnyText(c) == TRUE
Truthy(c) == c = "ok"

\* get_completion, lines 291-293: a truthy result is returned at once
SuccessEndsCall_TriesOn(m) == FALSE
SuccessEndsCall(m) == TRUE

\* start of get_completion: reload of the credentials (exceptions swallowed),
\* then the first model is entered.
GetCompletion(src) ==
    /\ pc \in {"idle", "done"}
    /\ calls < MaxCalls
    /\ calls' = calls + 1
    /\ LET keys == IF RefreshRaises(src) THEN api_keys ELSE src
           idx == IF RefreshRaises(src) THEN current_key_index
                  ELSE RefreshedIndex(src, current_key_index)
       IN /\ api_keys' = keys
          /\ current_key_index' = idx
          /\ original_key_index' = idx
          /\ scen' = IF Len(keys) = 2 THEN scen ELSE "off"
    /\ loaded' = Len(src)
    /\ pc' = "attempt"
    /\ model' = 1
    /\ retry_cycle' = 0
    /\ key_attempt' = 0
    /\ rate_limited_count' = 0
    /\ result' = NoResult
    /\ last' = NoAttempt
    /\ some_ok' = FALSE
    /\ all_auth' = TRUE
    /\ attempts' = NoAttempts
    /\ tried' = NoneTried
    /\ wait' = NoWait
    /\ last_ok' = IF current_key_index' = current_key_index THEN last_ok ELSE -1
    /\ rotated' = NoRotation
    /\ entry' = [index |-> current_key_index', empty |-> FALSE]
    /\ UNCHANGED <<svars, pvars, rvars, cvars, jvars>>

\* lines 220 and 239: self._current_key_index = original_key_index
RestoredIndex_Keeps(orig, key_index) == key_index
RestoredIndex(orig, key_index) == orig

\* get_completion after _try_model_completion gave None or "" for model m,
\* leaving the pool at index idx
ModelGaveNothing(idx) ==
    /\ current_key_index' = idx
    /\ retry_cycle' = 0
    /\ key_attempt' = 0
    /\ rate_limited_count' = 0
    /\ IF model < NumModels
       THEN /\ pc' = "attempt"
            /\ model' = NextModel(model)
            /\ original_key_index' = idx
            /\ result' = NoResult
       ELSE /\ pc' = "done"
            /\ result' = ExhaustedResult
            /\ UNCHANGED <<model, original_key_index>>

\* lines 196 and 231: rate_limited_count >= len(self._api_keys)
AllRateLimited_Any(count) == count >= 1
AllRateLimited(count) == count >= Len(api_keys)

\* _try_model_completion, lines 230-247: the credential loop of one cycle is
\* over with `count` credentials rate-limited in it
CycleOver_Unbounded(count) ==
    IF AllRateLimited(count)
    THEN /\ retry_cycle' = retry_cycle + 1
         /\ key_attempt' = 0
         /\ rate_limited_count' = 0
         /\ current_key_index' = KeyIndex(original_key_index, key_attempt, Len(api_keys))
         /\ UNCHANGED <<pc, model, original_key_index, result>>
    ELSE ModelGaveNothing(original_key_index)
CycleOver(count) ==
    IF AllRateLimited(count) /\ retry_cycle < max_retry_attempts - 1
    THEN /\ retry_cycle' = retry_cycle + 1
         /\ key_attempt' = 0
         /\ rate_limited_count' = 0
         /\ current_key_index' = KeyIndex(original_key_index, key_attempt, Len(api_keys))
         /\ UNCHANGED <<pc, model, original_key_index, result>>
    ELSE ModelGaveNothing(RestoredIndex(original_key_index,
                                        KeyIndex(original_key_index, key_attempt, Len(api_keys))))

\* `continue` in the credential loop
NextCredential_SameKey(count) ==
    /\ rate_limited_count' = count
    /\ current_key_index' = KeyIndex(original_key_index, key_attempt, Len(api_keys))
    /\ UNCHANGED <<pc, model, original_key_index, retry_cycle, key_attempt, result>>
NextCredential(count) ==
    IF key_attempt + 1 < Len(api_keys)
    THEN /\ key_attempt' = key_attempt + 1
         /\ rate_limited_count' = count
         /\ current_key_index' = KeyIndex(original_key_index, key_attempt, Len(api_keys))
         /\ UNCHANGED <<pc, model, original_key_index, retry_cycle, result>>
    ELSE CycleOver(count)

\* one backend request of _try_model_completion (lines 158-228) with
\* everything that follows it up to the next request or the end of the call
TryKey(o) ==
    /\ pc = "attempt"
    /\ LET n == Len(api_keys)
           key_index == KeyIndex(original_key_index, key_attempt, n)
           c == Classify(o)
           breaks == c = "rate" /\ AllRateLimited(rate_limited_count + 1)
                        /\ retry_cycle < max_retry_attempts - 1
       IN /\ last' = [model |-> model, key |-> key_index, class |-> c, sig |-> o.sig]
          /\ attempts' = [on |-> IF last.model = model THEN attempts.on + 1 ELSE 1,
                          total |-> attempts.total + 1]
          /\ wait' = IF c \in {"ok", "empty", "model"} THEN NoWait
                     ELSE IF breaks THEN Backoff(retry_cycle + 1)
                     ELSE Delay
          /\ last_ok' = IF c \in {"ok", "empty"} THEN key_index ELSE last_ok
          /\ entry' = [entry EXCEPT !.empty = entry.empty \/ c = "empty"]
          /\ some_ok' = (some_ok \/ c = "ok")
          /\ all_auth' = (all_auth /\ c \in {"auth", "ok"})
          /\ scen' = IF scen = "off" THEN "off"
                     ELSE IF (key_index = 0 /\ c = "rate") \/ (key_index = 1 /\ c = "ok")
                          THEN "on" ELSE "off"
          /\ CASE c \in {"ok", "empty"} ->
                    IF Truthy(c) /\ SuccessEndsCall(model)
                    THEN /\ pc' = "done"
                         /\ result' = Text(model)
                         /\ current_key_index' = IndexAfterSuccess(key_index, original_key_index)
                         /\ retry_cycle' = 0
                         /\ key_attempt' = 0
                         /\ rate_limited_count' = 0
                         /\ UNCHANGED <<model, original_key_index>>
                    ELSE ModelGaveNothing(key_index)
               [] c = "rate" ->
                    IF breaks
                    THEN CycleOver(rate_limited_count + 1)
                    ELSE NextCredential(rate_limited_count + 1)
               [] c = "model" -> ModelGaveNothing(RestoredIndex(original_key_index, key_index))
               [] c \in {"timeout", "auth", "other"} -> NextCredential(rate_limited_count)
          /\ tried' = IF pc' = "attempt" /\ model' = model /\ retry_cycle' = retry_cycle
                      THEN [keys |-> Append(tried.keys, key_index),
                            all_rate |-> tried.all_rate /\ c = "rate"]
                      ELSE NoneTried
    /\ UNCHANGED <<api_keys, calls, loaded, rotated>>
    /\ UNCHANGED <<svars, pvars, rvars, cvars, jvars>>

(* ===================== concurrent get_completion calls ================== *)
\* Two get_completion calls on one service instance.  A call runs without
\* interruption between two awaits: the backend request (line 170), the sleep
\* after a failed request (lines 184, 199, 213, 227) and the sleep before a
\* new cycle (line 154).  api_keys and current_key_index are the instance's;
\* everything else is local to a call.

ProcIds == {1, 2}

\* what the credential source holds while the two calls run: nothing, one
\* key or two keys
ConcKeyLists == { keys \in KeyLists : Len(keys) <= 2 }

\* the gateway variables that belong to the single-call model
gframe == <<pc, model, original_key_index, retry_cycle, key_attempt, rate_limited_count,
            result, calls, last, some_ok, all_auth, scen, loaded, attempts, tried, wait,
            last_ok, rotated, entry>>

\* a call that has not started; n is the length range() was built with at
\* line 159, index_error tells that the call ran into an IndexError
IdleProc == [pc |-> "idle", model |-> 0, orig |-> 0, cycle |-> 0, attempt |-> 0, n |-> 0,
             count |-> 0, index_error |-> FALSE]

\* lines 160-170: the key of this attempt is looked up, the instance's index
\* is set to it and the request is awaited
BeginAttempt(q, keys) ==
    [proc |-> [q EXCEPT !.pc = "request"],
     idx |-> KeyIndex(q.orig, q.attempt, Len(keys))]

\* lines 143-159: _try_model_completion is entered for model m while the
\* instance's index is idx
EnterModel(q, m, idx, keys) ==
    BeginAttempt([q EXCEPT !.model = m, !.orig = idx, !.cycle = 0, !.attempt = 0,
                           !.n = Len(keys), !.count = 0], keys)

\* get_completion after a model gave nothing (None, "" or an exception)
LeaveModel(q, idx, keys) ==
    IF q.model < NumModels
    THEN EnterModel(q, NextModel(q.model), idx, keys)
    ELSE [proc |-> [q EXCEPT !.pc = "done"], idx |-> idx]

\* lines 220-221 and 239-240: the index is set back to original_key_index and
\* self._api_keys[original_key_index] is read; the IndexError of that read
\* reaches the except of get_completion (line 296), which goes on with the
\* next model
Restore(q, keys) ==
    LeaveModel([q EXCEPT !.index_error = q.index_error \/ q.orig >= Len(keys)],
               RestoredIndex(q.orig, KeyIndex(q.orig, q.attempt, Len(keys))), keys)

\* the end of the key loop, lines 230-235
AfterKeyLoop(q, keys) ==
    IF AllRateLimited(q.count) /\ q.cycle < max_retry_attempts - 1
    THEN [proc |-> [q EXCEPT !.pc = "backoff", !.cycle = q.cycle + 1], idx |-> current_key_index]
    ELSE Restore(q, keys)

\* call p starts: reload, then the first request of the first model
ConcStart(p, src) ==
    /\ procs[p].pc = "idle"
    /\ LET keys == IF RefreshRaises(src) THEN api_keys ELSE src
           idx == IF RefreshRaises(src) THEN current_key_index
                  ELSE RefreshedIndex(src, current_key_index)
           r == EnterModel(procs[p], 1, idx, keys)
       IN /\ api_keys' = keys
          /\ current_key_index' = r.idx
          /\ procs' = [procs EXCEPT ![p] = r.proc]
    /\ UNCHANGED gframe
    /\ UNCHANGED <<svars, pvars, rvars, jvars>>

\* the request of call p ends with outcome o; the call runs on to its next
\* await or to its end
ConcRespond(p, o) ==
    /\ procs[p].pc = "request"
    /\ LET q == procs[p]
           c == Classify(o)
           counted == [q EXCEPT !.count = q.count + 1]
           r == CASE c = "ok" -> [proc |-> [q EXCEPT !.pc = "done"], idx |-> current_key_index]
                  [] c = "empty" -> LeaveModel(q, current_key_index, api_keys)
                  [] c = "model" -> Restore(q, api_keys)
                  [] c = "rate" ->
                       IF AllRateLimited(counted.count) /\ q.cycle < max_retry_attempts - 1
                       THEN AfterKeyLoop(counted, api_keys)
                       ELSE [proc |-> [counted EXCEPT !.pc = "sleep"], idx |-> current_key_index]
                  [] OTHER -> [proc |-> [q EXCEPT !.pc = "sleep"], idx |-> current_key_index]
       IN /\ current_key_index' = r.idx
          /\ procs' = [procs EXCEPT ![p] = r.proc]
    /\ UNCHANGED api_keys
    /\ UNCHANGED gframe
    /\ UNCHANGED <<svars, pvars, rvars, jvars>>

\* the sleep after a failed request of call p is over: `continue`
ConcWake(p) ==
    /\ procs[p].pc = "sleep"
    /\ LET q == procs[p]
           r == IF q.attempt + 1 < q.n
                THEN BeginAttempt([q EXCEPT !.attempt = q.attempt + 1], api_keys)
                ELSE AfterKeyLoop(q, api_keys)
       IN /\ current_key_index' = r.idx
          /\ procs' = [procs EXCEPT ![p] = r.proc]
    /\ UNCHANGED api_keys
    /\ UNCHANGED gframe
    /\ UNCHANGED <<svars, pvars, rvars, jvars>>

\* the backoff of call p is over: the next cycle begins
ConcBackoffOver(p) ==
    /\ procs[p].pc = "backoff"
    /\ LET r == BeginAttempt([procs[p] EXCEPT !.count = 0, !.attempt = 0, !.n = Len(api_keys)],
                             api_keys)
       IN /\ current_key_index' = r.idx
          /\ procs' = [procs EXCEPT ![p] = r.proc]
    /\ UNCHANGED api_keys
    /\ UNCHANGED gframe
    /\ UNCHANGED <<svars, pvars, rvars, jvars>>

(* ============================ progress stream ========================== *)

\* the values the inputs of a batch are drawn from
Directions == {"resumes", "jobs"}
Scores == {0, 70, 90}
MissingLists == {<<>>, <<"Go">>}
MinimumScores == {0, 70}
MaxMissingSkills == {0, 2}
\* the remarks text of an analysis: free text that no branch reads
Remarks == {"Strong fit"}

\* int((num2 / 2 / den) * range) as Python computes it in binary floating
\* point: the floor of the exact quotient, except where the product falls
\* just below an integer (0.7 * 90 = 62.99999999999999).
FloatInt(num2, den, range) ==
    IF range = 90 /\ num2 * 10 = 14 * den THEN 62
    ELSE (num2 * range) \div (2 * den)

\* percentage of the analysis phase: int(((index + half/2) / total) * 90)
AnalysisPct_OfHundred(idx, half, tot) == FloatInt(2 * idx + half, tot, 100)
AnalysisPct(idx, half, tot) == FloatInt(2 * idx + half, tot, 90)

\* percentage of the email phase: 90 + int((email_index / total_results) * 10)
EmailPct(idx, tot) == 90 + FloatInt(2 * idx, tot, 10)

Absent == "absent"

\* the dict appended for an analyzed item: {"filename": ..., **analysis}
AnalysisRecord(i, score, missing, remarks) ==
    [item |-> i, error |-> FALSE, score |-> score, missing_skills |-> missing,
     remarks |-> remarks,
     is_best_match |-> Absent, email |-> Absent, email_type |-> Absent, email_error |-> FALSE]

\* "remarks" of error_result
ErrorRemarks ==
    IF direction = "resumes" THEN "Error processing resume" ELSE "Error analyzing job"

\* error_result of the except branch of the item loop
ErrorRecord_NotMarked(i) ==
    [item |-> i, error |-> FALSE, score |-> 0, missing_skills |-> <<>>,
     remarks |-> ErrorRemarks,
     is_best_match |-> Absent, email |-> Absent, email_type |-> Absent, email_error |-> FALSE]
ErrorRecord(i) ==
    [item |-> i, error |-> TRUE, score |-> 0, missing_skills |-> <<>>,
     remarks |-> ErrorRemarks,
     is_best_match |-> Absent, email |-> Absent, email_type |-> Absent, email_error |-> FALSE]

\* results.append(record)
AppendResult_Prepends(rs, r) == <<r>> \o rs
AppendResult(rs, r) == Append(rs, r)

\* one yielded event; payload is the "result" / "results" it carries
Event(type, status, item, pct, payload) ==
    [type |-> type, status |-> status, item |-> item, pct |-> pct, payload |-> payload]

\* the final event, lines 537-544 / 939-946
FinalEvent_AsProgress(rs) == Event("progress", "complete", 0, 100, rs)
FinalEvent(rs) == Event("complete", "", 0, 100, rs)

\* [r for r in results if "error" not in r]
Successful(rs) == SelectSeq(rs, LAMBDA r : ~r.error)

\* list.sort(key=score, reverse=True): stable, descending
RECURSIVE InsertByScore(_, _)
InsertByScore(sorted, r) ==
    IF sorted = <<>> THEN <<r>>
    ELSE IF Head(sorted).score >= r.score
         THEN <<Head(sorted)>> \o InsertByScore(Tail(sorted), r)
         ELSE <<r>> \o sorted
RECURSIVE SortByScoreDesc(_)
SortByScoreDesc(rs) ==
    IF rs = <<>> THEN <<>>
    ELSE InsertByScore(SortByScoreDesc(SubSeq(rs, 1, Len(rs) - 1)), rs[Len(rs)])

SetMax(S) == CHOOSE x \in S : \A y \in S : y <= x
SetMin(S) == CHOOSE x \in S : \A y \in S : x <= y

\* best_score = max(r["score"] for r in successful_results if "error" not in r)
BestScore_AmongAcceptable(succ) ==
    LET ok == { j \in 1..Len(succ) :
                  ~succ[j].error /\ succ[j].score >= minimum_score
                     /\ Len(succ[j].missing_skills) <= max_missing_skills }
        all == { j \in 1..Len(succ) : ~succ[j].error }
    IN SetMax({ succ[k].score : k \in (IF ok = {} THEN all ELSE ok) })
BestScore(succ) == SetMax({ succ[k].score : k \in { j \in 1..Len(succ) : ~succ[j].error } })

\* min(len(missing_skills)) over the candidates with the best score
MinMissingSkills_OverAll(succ) ==
    SetMin({ Len(succ[k].missing_skills) : k \in { j \in 1..Len(succ) : ~succ[j].error } })
MinMissingSkills(succ) ==
    SetMin({ Len(succ[k].missing_skills) :
             k \in { j \in 1..Len(succ) : ~succ[j].error /\ succ[j].score = BestScore(succ) } })

\* is_acceptable / is_good_match
IsAcceptable(r, minScore, maxMissing) ==
    r.score >= minScore /\ Len(r.missing_skills) <= maxMissing

\* result["is_best_match"]
IsBestMatch_FirstOnly(r, succ, minScore, maxMissing) ==
    /\ IsAcceptable(r, minScore, maxMissing)
    /\ r.score = BestScore(succ)
    /\ Len(r.missing_skills) = MinMissingSkills(succ)
    /\ \A k \in 1..Len(succ) :
          (succ[k].score = r.score /\ Len(succ[k].missing_skills) = Len(r.missing_skills))
             => succ[k].item >= r.item
IsBestMatch(r, succ, minScore, maxMissing) ==
    /\ IsAcceptable(r, minScore, maxMissing)
    /\ r.score = BestScore(succ)
    /\ Len(r.missing_skills) = MinMissingSkills(succ)

NoProgress == Event("none", "", 0, 0, <<>>)

\* what the analysis of one item can give: a parsed record, or an exception
\* (the completion gateway raising by exhaustion)
AnalysisOutcomes ==
    { [ok |-> TRUE, score |-> sc, missing_skills |-> ms, remarks |-> rm] :
          sc \in Scores, ms \in MissingLists, rm \in Remarks }
    \cup { [ok |-> FALSE, score |-> 0, missing_skills |-> <<>>, remarks |-> ""] }

\* what the email step of an item can do.  EmailService defines
\* generate_acceptance_email and generate_rejection_email, which return a text
\* or raise; it defines no generate_application_email, so that call raises;
\* the no_application text is a literal.
EmailOutcomes(dir, acceptable) ==
    IF dir = "resumes" THEN {"ok", "raise"}
    ELSE IF acceptable THEN {"raise"} ELSE {"ok"}

\* email_type of an item whose email step went through
EmailType_AlwaysPositive(dir, acceptable) ==
    IF dir = "resumes" THEN "acceptance" ELSE "application"
EmailType(dir, acceptable) ==
    IF dir = "resumes" THEN (IF acceptable THEN "acceptance" ELSE "rejection")
    ELSE (IF acceptable THEN "application" ELSE "no_application")

\* the email step going through: result["email"] and result["email_type"]
EmailSet_NoType(r, dir, acceptable) == [r EXCEPT !.email = "set"]
EmailSet(r, dir, acceptable) ==
    [r EXCEPT !.email = "set", !.email_type = EmailType(dir, acceptable)]

\* the except branch of the email step: result["email_error"] = str(email_error)
EmailFailed_Unmarked(r) == r
EmailFailed(r) == [r EXCEPT !.email_error = TRUE]

\* head of the item loop: the first event of item index+1
\* (lines 395-409 / 789-807)
StartItem ==
    /\ spc = "item"
    /\ index < total
    /\ LET p == Event("progress", IF direction = "resumes" THEN "processing" ELSE "analyzing",
                      index + 1, AnalysisPct(index, 0, total), <<>>)
       IN /\ progress' = p
          /\ events' = Append(events, p)
    /\ spc' = IF direction = "resumes" THEN "extract" ELSE "analyze"
    /\ UNCHANGED <<total, index, results, minimum_score, max_missing_skills, direction,
                   connected>>
    /\ UNCHANGED <<gvars, pvars, rvars, cvars, jvars>>

\* the except branch of the item loop (lines 438-453 / 831-847)
ItemFailed_Aborts ==
    LET r == ErrorRecord(index + 1)
        p == [progress EXCEPT !.status = "error", !.payload = <<r>>]
    IN /\ results' = AppendResult(results, r)
       /\ progress' = p
       /\ events' = Append(events, p)
       /\ index' = total
       /\ spc' = "item"
ItemFailed ==
    LET r == ErrorRecord(index + 1)
        p == [progress EXCEPT !.status = "error", !.payload = <<r>>]
    IN /\ results' = AppendResult(results, r)
       /\ progress' = p
       /\ events' = Append(events, p)
       /\ index' = index + 1
       /\ spc' = "item"

\* file_service.process_file(resume) and the "analyzing" event (lines 411-420)
Extract(ok) ==
    /\ spc = "extract"
    /\ IF ok
       THEN LET p == [progress EXCEPT !.status = "analyzing",
                                      !.pct = AnalysisPct(index, 1, total)]
            IN /\ progress' = p
               /\ events' = Append(events, p)
               /\ spc' = "analyze"
               /\ UNCHANGED <<index, results>>
       ELSE ItemFailed
    /\ UNCHANGED <<total, minimum_score, max_missing_skills, direction,
                   connected>>
    /\ UNCHANGED <<gvars, pvars, rvars, cvars, jvars>>

\* ai_service.analyze_resume / analyze_job_for_resume and the outcome event
\* (lines 422-436 / 810-829)
Analyze(a) ==
    /\ spc = "analyze"
    /\ IF a.ok
       THEN LET r == AnalysisRecord(index + 1, a.score, a.missing_skills, a.remarks)
                p == [progress EXCEPT !.status = "analyzed",
                                      !.pct = AnalysisPct(index + 1, 0, total),
                                      !.payload = <<r>>]
            IN /\ results' = AppendResult(results, r)
               /\ progress' = p
               /\ events' = Append(events, p)
               /\ index' = index + 1
               /\ spc' = "item"
       ELSE ItemFailed
    /\ UNCHANGED <<total, minimum_score, max_missing_skills, direction,
                   connected>>
    /\ UNCHANGED <<gvars, pvars, rvars, cvars, jvars>>

\* lines 455-465 / 849-859: the item loop is over and some item was analyzed
EnterEmailPhase_Early ==
    /\ spc = "item"
    /\ index >= 1
    /\ Successful(results) # <<>>
    /\ spc' = "email"
    /\ index' = 0
    /\ UNCHANGED <<total, results, events, progress, minimum_score, max_missing_skills, direction,
                   connected>>
    /\ UNCHANGED <<gvars, pvars, rvars, cvars, jvars>>
EnterEmailPhase ==
    /\ spc = "item"
    /\ index = total
    /\ Successful(results) # <<>>
    /\ spc' = "email"
    /\ index' = 0
    /\ UNCHANGED <<total, results, events, progress, minimum_score, max_missing_skills, direction,
                   connected>>
    /\ UNCHANGED <<gvars, pvars, rvars, cvars, jvars>>

\* email loop, an item whose analysis failed: nothing happens
SkipFailed ==
    /\ spc = "email"
    /\ index < Len(results)
    /\ results[index + 1].error
    /\ index' = index + 1
    /\ UNCHANGED <<spc, total, results, events, progress, minimum_score, max_missing_skills, direction,
                   connected>>
    /\ UNCHANGED <<gvars, pvars, rvars, cvars, jvars>>

\* email loop, lines 466-475 / 860-870: the generating_email event
StartEmail_Silent ==
    /\ spc = "email"
    /\ index < Len(results)
    /\ ~results[index + 1].error
    /\ spc' = "send"
    /\ UNCHANGED <<total, index, results, events, progress, minimum_score, max_missing_skills,
                   direction, connected>>
    /\ UNCHANGED <<gvars, pvars, rvars, cvars, jvars>>
StartEmail ==
    /\ spc = "email"
    /\ index < Len(results)
    /\ ~results[index + 1].error
    /\ events' = Append(events, Event("progress", "generating_email", results[index + 1].item,
                                      EmailPct(index, Len(results)), <<>>))
    /\ spc' = "send"
    /\ UNCHANGED <<total, index, results, progress, minimum_score, max_missing_skills, direction,
                   connected>>
    /\ UNCHANGED <<gvars, pvars, rvars, cvars, jvars>>

\* email loop, lines 477-535 / 872-937: ranking, email generation and the
\* event with status complete
GenerateEmail(out) ==
    /\ spc = "send"
    /\ out \in EmailOutcomes(direction,
                             IsAcceptable(results[index + 1], minimum_score, max_missing_skills))
    /\ LET r == results[index + 1]
           successful_results == SortByScoreDesc(Successful(results))
           acceptable == IsAcceptable(r, minimum_score, max_missing_skills)
           ranked == [r EXCEPT !.is_best_match =
                          IsBestMatch(r, successful_results, minimum_score, max_missing_skills)]
           done == IF out = "ok"
                   THEN EmailSet(ranked, direction, acceptable)
                   ELSE EmailFailed(ranked)
       IN /\ results' = [results EXCEPT ![index + 1] = done]
          /\ events' = Append(events, Event("progress", "complete", r.item,
                                            EmailPct(index + 1, Len(results)), <<done>>))
    /\ index' = index + 1
    /\ spc' = "email"
    /\ UNCHANGED <<total, progress, minimum_score, max_missing_skills, direction,
                   connected>>
    /\ UNCHANGED <<gvars, pvars, rvars, cvars, jvars>>

\* the consumer of the StreamingResponse goes away while the generator runs;
\* the generator takes no argument and reads no state that tells it so
Disconnect ==
    /\ spc \notin {"off", "closed"}
    /\ connected
    /\ connected' = FALSE
    /\ UNCHANGED <<spc, total, index, results, events, progress, minimum_score,
                   max_missing_skills, direction>>
    /\ UNCHANGED <<gvars, pvars, rvars, cvars, jvars>>

\* lines 537-544 / 939-946: the final event
Finish ==
    /\ \/ spc = "item" /\ index = total /\ Successful(results) = <<>>
       \/ spc = "email" /\ index = Len(results)
    /\ events' = Append(events, FinalEvent(results))
    /\ spc' = "closed"
    /\ UNCHANGED <<total, index, results, progress, minimum_score, max_missing_skills, direction,
                   connected>>
    /\ UNCHANGED <<gvars, pvars, rvars, cvars, jvars>>

(* ============================ backend request ========================== *)

\* Python's None
None == "<None>"

\* DEFAULT_PARAMS: the keys of a profile, each holding the profile's value
Profiles == {"job_description", "resume_analysis", "email"}
ProfileKeys == {"temperature", "max_tokens", "system_message"}
ProfileValue(type, key) == <<"profile", type, key>>
\* DEFAULT_PARAMS.get(completion_type, {}).copy()
DefaultParams(type) ==
    IF type \in Profiles THEN [k \in ProfileKeys |-> ProfileValue(type, k)]
    ELSE [k \in {} |-> <<>>]

\* a value the caller passed in **kwargs
KwargValue(key) == <<"kwarg", key>>

\* dict.update(kwargs)
Update(params, kwargs) ==
    [k \in (DOMAIN params) \cup kwargs |-> IF k \in kwargs THEN KwargValue(k) ELSE params[k]]

\* dict without the keys in ks (dict.pop(key, default) for each of them)
Without(params, ks) == [k \in (DOMAIN params) \ ks |-> params[k]]

\* bool(custom_system_message)
Given(custom) == custom # None /\ custom # ""

\* the keys _try_model_completion pops from its kwargs, lines 138-140
PoppedKeys == {"timeout", "retry_delay", "max_retry_attempts"}

NoRequest == [kind |-> "none", messages |-> <<>>, params |-> [k \in {} |-> <<>>]]
KeyErrorRaised == [kind |-> "raised", messages |-> <<>>, params |-> [k \in {} |-> <<>>]]

\* get_completion lines 277-284 and _try_model_completion lines 138-140,
\* 170-177: the messages and the keyword arguments of
\* client.chat.completions.create.  `custom or params.pop("system_message")`
\* pops only when custom is falsy.
BuildRequest(type, custom, kwargs) ==
    LET params == Update(DefaultParams(type), kwargs)
    IN IF Given(custom)
       THEN [kind |-> "sent",
             messages |-> << [role |-> "system", content |-> <<"custom", custom>>],
                             [role |-> "user", content |-> <<"prompt">>] >>,
             params |-> Without(params, PoppedKeys)]
       ELSE IF "system_message" \in DOMAIN params
       THEN [kind |-> "sent",
             messages |-> << [role |-> "system", content |-> params["system_message"]],
                             [role |-> "user", content |-> <<"prompt">>] >>,
             params |-> Without(params, PoppedKeys \cup {"system_message"})]
       ELSE KeyErrorRaised

\* the arguments get_completion is called with
CompletionTypes == Profiles \cup {"unknown"}
CustomMessages == {None, "", "Answer in one line."}
KwargSets == SUBSET {"temperature", "max_tokens", "system_message", "timeout"}

\* one get_completion call up to its first backend request
SendRequest ==
    /\ rpc = "input"
    /\ request' = BuildRequest(call_args.type, call_args.custom, call_args.kwargs)
    /\ rpc' = IF request'.kind = "sent" THEN "sent" ELSE "raised"
    /\ UNCHANGED call_args
    /\ UNCHANGED <<gvars, svars, pvars, cvars, jvars>>

(* ====================== structured-response parser ===================== *)
\* Texts are TLA+ strings; the bullet character U+2022 is written "*".

\* the i-th character of s
Char(s, i) == SubSeq(s, i, i)

\* `c in s` and the positions of c in s
Positions(s, c) == { i \in 1..Len(s) : Char(s, i) = c }
Contains(s, c) == Positions(s, c) # {}

\* str.strip()
IsSpace(c) == c \in {" ", "\t", "\r", "\n"}
RECURSIVE LStrip(_)
LStrip(s) == IF s # "" /\ IsSpace(Head(s)) THEN LStrip(Tail(s)) ELSE s
RECURSIVE RStrip(_)
RStrip(s) == IF s # "" /\ IsSpace(Char(s, Len(s))) THEN RStrip(SubSeq(s, 1, Len(s) - 1)) ELSE s
Strip(s) == RStrip(LStrip(s))

\* str.startswith(p)
StartsWith(s, p) == Len(s) >= Len(p) /\ SubSeq(s, 1, Len(p)) = p

\* str.split(sep) for a one-character separator
RECURSIVE Split(_, _)
Split(s, sep) ==
    IF Contains(s, sep)
    THEN LET i == SetMin(Positions(s, sep))
         IN <<SubSeq(s, 1, i - 1)>> \o Split(SubSeq(s, i + 1, Len(s)), sep)
    ELSE <<s>>

\* line.split(':', 1)[1]; IndexError when the line holds no colon
HasField(line) == Contains(line, ":")
AfterColon(line) == SubSeq(line, SetMin(Positions(line, ":")) + 1, Len(line))

\* str.replace(c, '')
RECURSIVE Remove(_, _)
Remove(s, c) ==
    IF s = "" THEN ""
    ELSE (IF Head(s) = c THEN "" ELSE Head(s)) \o Remove(Tail(s), c)

\* str.lower()
UpperCase == "ABCDEFGHIJKLMNOPQRSTUVWXYZ"
LowerCase == "abcdefghijklmnopqrstuvwxyz"
LowerChar(c) ==
    IF Contains(UpperCase, c) THEN Char(LowerCase, SetMin(Positions(UpperCase, c))) ELSE c
RECURSIVE Lower(_)
Lower(s) == IF s = "" THEN "" ELSE LowerChar(Head(s)) \o Lower(Tail(s))

\* float(s) for a stripped s written with digits, a sign and a decimal
\* point (no exponent, inf, nan or underscore occurs in the texts drawn
\* here): ok = FALSE stands for ValueError, else the value is
\* (-1)^neg * num / den.
Digits == "0123456789"
IsDigit(c) == Contains(Digits, c)
DigitValue(c) == SetMin(Positions(Digits, c)) - 1
RECURSIVE DecValue(_)
DecValue(s) ==
    IF s = "" THEN 0 ELSE 10 * DecValue(SubSeq(s, 1, Len(s) - 1)) + DigitValue(Char(s, Len(s)))
RECURSIVE Pow10(_)
Pow10(n) == IF n = 0 THEN 1 ELSE 10 * Pow10(n - 1)
ParseFloat(s) ==
    LET signed == s # "" /\ Head(s) \in {"-", "+"}
        body == IF signed THEN Tail(s) ELSE s
        dots == Positions(body, ".")
        digits == Remove(body, ".")
        ok == /\ Cardinality(dots) <= 1
              /\ digits # ""
              /\ \A i \in 1..Len(digits) : IsDigit(Char(digits, i))
    IN IF ok
       THEN [ok |-> TRUE, neg |-> signed /\ Head(s) = "-", num |-> DecValue(digits),
             den |-> Pow10(IF dots = {} THEN 0 ELSE Len(body) - SetMin(dots))]
       ELSE [ok |-> FALSE, neg |-> FALSE, num |-> 0, den |-> 1]

\* a score is the fraction num / den, den a power of ten, in lowest such form
RECURSIVE Number(_, _)
Number(n, d) == IF d > 1 /\ n % 10 = 0 THEN Number(n \div 10, d \div 10) ELSE [num |-> n, den |-> d]
Zero == Number(0, 1)
Hundred == Number(100, 1)

\* line 322: min(100, max(0, score))
Clamp_NoUpper(f) == IF f.neg THEN Zero ELSE Number(f.num, f.den)
Clamp(f) ==
    IF f.neg THEN Zero
    ELSE IF f.num > 100 * f.den THEN Hundred
    ELSE Number(f.num, f.den)

\* lines 319-325: the Score value; the ValueError of float() is caught
ParseScore_Uncaught(value) ==
    LET f == ParseFloat(Strip(Remove(value, "%")))
    IN [raised |-> ~f.ok, score |-> IF f.ok THEN Clamp(f) ELSE Zero]
ParseScore(value) ==
    LET f == ParseFloat(Strip(Remove(value, "%")))
    IN IF f.ok THEN [raised |-> FALSE, score |-> Clamp(f)]
       ELSE [raised |-> FALSE, score |-> Zero]

\* line 329: the values that mean "no missing skill"
Sentinels == {"[]", "none", "n/a", "-", "", "no missing skills"}
IsSentinel_CaseSensitive(value) == Strip(value) \in Sentinels
IsSentinel(value) == Lower(Strip(value)) \in Sentinels

\* line 333, in priority order
separators_HyphenFirst == <<"-", ",", ";", "\n", "*">>
separators == <<",", ";", "\n", "*", "-">>

\* lines 339-341: the tokens kept after a split
KeepSkill(skill) ==
    /\ Strip(skill) # ""
    /\ Lower(Strip(skill)) \notin {"none", "n/a"}
    /\ Len(Strip(skill)) > 1

\* lines 336-342: split on sep, keep and strip
SplitSkills(value, sep) ==
    LET kept == SelectSeq(Split(value, sep), KeepSkill)
    IN [k \in 1..Len(kept) |-> Strip(kept[k])]

\* line 345: the else of the for loop, no separator in the value
Unsplit(value) == IF Strip(value) # "" THEN <<Strip(value)>> ELSE <<>>

\* lines 327-347: the Missing Skills value
MissingSkills(value) ==
    IF IsSentinel(value) THEN <<>>
    ELSE LET present == { k \in 1..Len(separators) : Contains(value, separators[k]) }
         IN IF present = {} THEN Unsplit(value)
            ELSE SplitSkills(value, separators[SetMin(present)])

\* line 314
matching_lines(lines, key) ==
    SelectSeq(lines, LAMBDA line : StartsWith(Strip(line), key \o ":"))

\* the dict before any key is set
NoRecord == [k \in {} |-> 0]
Placeholder == "Unable to determine specific skill gaps from the provided information."

\* lines 352-358: keys still missing get their default
WithDefaults_None(p) == p
WithDefaults(p) == p @@ [score |-> Zero, missing_skills |-> <<>>, remarks |-> Placeholder]

\* parse_structured_response(result, ["Score", "Missing Skills", "Remarks"])
parse_structured_response(response) ==
    LET lines == Split(response, "\n")
        found(key) == Len(matching_lines(lines, key)) > 0
        line(key) == matching_lines(lines, key)[1]
        value(key) == Strip(AfterColon(line(key)))
        score == ParseScore(value("Score"))
        raised == \/ \E key \in {"Score", "Missing Skills", "Remarks"} :
                        found(key) /\ ~HasField(line(key))
                  \/ found("Score") /\ score.raised
        p1 == IF found("Score") THEN [score |-> score.score] ELSE NoRecord
        p2 == IF found("Missing Skills")
              THEN [missing_skills |-> MissingSkills(value("Missing Skills"))] ELSE NoRecord
        p3 == IF found("Remarks") THEN [remarks |-> Strip(value("Remarks"))] ELSE NoRecord
    IN IF raised THEN [raised |-> TRUE, parsed |-> NoRecord]
       ELSE [raised |-> FALSE, parsed |-> WithDefaults(p1 @@ p2 @@ p3)]

\* one call of parse_structured_response on the text of the completion
ParseStructuredResponse ==
    /\ ppc = "input"
    /\ LET out == parse_structured_response(text)
       IN /\ ppc' = IF out.raised THEN "raised" ELSE "returned"
          /\ parsed' = out.parsed
    /\ UNCHANGED text
    /\ UNCHANGED <<gvars, svars, rvars, cvars, jvars>>

\* the texts a completion is drawn from
ScoreAlphabet == {"1", "7", "-", ".", "%", " ", "x"}
SkillAlphabet == {"a", "C", ",", ";", "-", "*", " "}
RECURSIVE Strings(_, _)
Strings(alphabet, n) ==
    IF n = 0 THEN {""}
    ELSE LET shorter == Strings(alphabet, n - 1)
         IN shorter \cup { s \o c : s \in shorter, c \in alphabet }
ScoreValues ==
    Strings(ScoreAlphabet, MaxValueLen)
       \cup {" 137%", " -5", " 85", " 85.5%", " 100", " 0", " 100.01", " high", " 85/100", " 85 %"}
SkillValues ==
    Strings(SkillAlphabet, MaxValueLen)
       \cup {" Go, Rust, C++", " none", " None", " N/A", " n/a", " []", " -", " no missing skills",
             " No Missing Skills", " none, Go", " Go; C-3, Rust", " Go, []", " CI-CD", " Go * Rust",
             " Go, C, Rust", " Kubernetes", " C"}
OtherTexts ==
    {"", "Score: 85\nMissing Skills: Go, Rust\nRemarks: Strong in Python",
     "  Score: 85\n  Missing Skills: none\n  Remarks: Good fit", "score: 85", "Score 85",
     "Score: 10\nScore: 20", "Remarks:", "Remarks: a: b", "The Score: 85",
     "Missing Skills: Go,\nRust", "Missing Skills: Go\nMissing Skills: Rust",
     "Sorry, I cannot analyze this resume.", "Score: 85\nRemarks: ok", "Remarks: ok\nScore: 85"}
Texts ==
    { "Score:" \o v : v \in ScoreValues }
       \cup { "Missing Skills:" \o v : v \in SkillValues }
       \cup OtherTexts

(* ======================= job descriptions of a batch =================== *)

\* bounds of the form of analyze_jobs_stream
MaxJobTexts == 1
MaxJobFiles == 2

\* the job texts and the names of the uploaded job files
JobTexts ==
    {"",
     "Backend engineer, Python and SQL, five years of experience.",
     "Data engineer, Spark and Airflow, three years of experience."}
FileNames == {"job.pdf", "role.pdf"}

\* job_text and len(job_text.strip()) >= 50
MinJobTextLen == 50
ValidJobText(t) == t # "" /\ Len(Strip(t)) >= MinJobTextLen

\* lines 996-1004: a pasted text gets the source text_job_<position>
RECURSIVE TextJobs(_, _)
TextJobs(job_texts, idx) ==
    IF idx >= Len(job_texts) THEN <<>>
    ELSE (IF ValidJobText(job_texts[idx + 1])
          THEN << [source |-> "text_job_" \o ToString(idx + 1), text |-> job_texts[idx + 1]] >>
          ELSE <<>>)
         \o TextJobs(job_texts, idx + 1)

\* lines 1007-1018: an uploaded file gets its file name as source
RECURSIVE FileJobs(_, _)
FileJobs(job_files, idx) ==
    IF idx >= Len(job_files) THEN <<>>
    ELSE (IF ValidJobText(job_files[idx + 1].text)
          THEN << [source |-> job_files[idx + 1].filename, text |-> job_files[idx + 1].text] >>
          ELSE <<>>)
         \o FileJobs(job_files, idx + 1)

\* job_descriptions of analyze_jobs_stream (company names left out)
JobDescriptions(form) == TextJobs(form.job_texts, 0) \o FileJobs(form.job_files, 0)

\* next((j['text'] for j in job_descriptions if j['source'] == source), "")
RECURSIVE JobTextOf(_, _)
JobTextOf(jobs, source) ==
    IF jobs = <<>> THEN ""
    ELSE IF Head(jobs).source = source THEN Head(jobs).text
    ELSE JobTextOf(Tail(jobs), source)

\* analyze_jobs_stream, lines 993-1043: the list is built; an empty list is
\* answered with HTTP 400
CollectJobs ==
    /\ jpc = "form"
    /\ job_descriptions' = JobDescriptions(job_form)
    /\ jpc' = IF job_descriptions' = <<>> THEN "rejected" ELSE "analyze"
    /\ UNCHANGED <<job_form, job_results, email_index, lookups>>
    /\ UNCHANGED <<gvars, svars, pvars, rvars, cvars>>

\* process_jobs_stream, lines 788-847: one job is analyzed; the result carries
\* the job's source.  `out` is "good" (acceptable), "poor" or "error".
JobAnalyzed(out) ==
    /\ jpc = "analyze"
    /\ Len(job_results) < Len(job_descriptions)
    /\ LET n == Len(job_results) + 1
           r == [job |-> n, job_source |-> job_descriptions[n].source,
                 error |-> out = "error", good |-> out = "good", email_error |-> FALSE]
           rs == Append(job_results, r)
       IN /\ job_results' = rs
          /\ jpc' = IF n < Len(job_descriptions) THEN "analyze"
                    ELSE IF \E k \in 1..Len(rs) : ~rs[k].error THEN "email"
                    ELSE "closed"
    /\ UNCHANGED <<job_form, job_descriptions, email_index, lookups>>
    /\ UNCHANGED <<gvars, svars, pvars, rvars, cvars>>

\* process_jobs_stream, lines 859-937: one turn of the email loop.  For an
\* acceptable item the job text is looked up by source (896-899) and the
\* application email is called for (900), which raises because EmailService
\* defines no generate_application_email (923-925).
JobEmail ==
    /\ jpc = "email"
    /\ email_index < Len(job_results)
    /\ LET r == job_results[email_index + 1]
       IN IF ~r.error /\ r.good
          THEN /\ lookups' = Append(lookups,
                                    [job |-> r.job,
                                     job_text |-> JobTextOf(job_descriptions, r.job_source)])
               /\ job_results' = [job_results EXCEPT ![email_index + 1].email_error = TRUE]
          ELSE UNCHANGED <<lookups, job_results>>
    /\ email_index' = email_index + 1
    /\ jpc' = IF email_index + 1 = Len(job_results) THEN "closed" ELSE "email"
    /\ UNCHANGED <<job_form, job_descriptions>>
    /\ UNCHANGED <<gvars, svars, pvars, rvars, cvars>>

(* ============================ specifications =========================== *)

GatewayIdle ==
    /\ pc = "off" /\ api_keys = <<1>> /\ current_key_index = 0 /\ model = 0
    /\ original_key_index = 0 /\ retry_cycle = 0 /\ key_attempt = 0
    /\ rate_limited_count = 0 /\ result = NoResult /\ calls = 0
    /\ last = NoAttempt /\ some_ok = FALSE /\ all_auth = TRUE /\ scen = "off"
    /\ loaded = -1 /\ attempts = NoAttempts /\ tried = NoneTried /\ wait = NoWait
    /\ last_ok = -1 /\ rotated = NoRotation /\ entry = NoEntry

StreamIdle ==
    /\ spc = "off" /\ total = 0 /\ index = 0 /\ results = <<>> /\ events = <<>>
    /\ progress = NoProgress /\ minimum_score = 0 /\ max_missing_skills = 0
    /\ direction = "resumes" /\ connected = TRUE

ParserIdle == ppc = "off" /\ text = "" /\ parsed = NoRecord

NoArgs == [type |-> "", custom |-> None, kwargs |-> {}]
RequestIdle == rpc = "off" /\ call_args = NoArgs /\ request = NoRequest

ConcIdle == procs = <<>>

NoForm == [job_texts |-> <<>>, job_files |-> <<>>]
JobsIdle ==
    /\ jpc = "off" /\ job_form = NoForm /\ job_descriptions = <<>>
    /\ job_results = <<>> /\ email_index = 0 /\ lookups = <<>>

\* BaseAIService.__init__: the first load must find a key, the index is 0
Init ==
    /\ api_keys \in KeyLists \ {<<>>}
    /\ current_key_index = 0
    /\ pc = "idle"
    /\ model = 0
    /\ original_key_index = 0
    /\ retry_cycle = 0
    /\ key_attempt = 0
    /\ rate_limited_count = 0
    /\ result = NoResult
    /\ calls = 0
    /\ last = NoAttempt
    /\ some_ok = FALSE
    /\ all_auth = TRUE
    /\ scen = IF Len(api_keys) = 2 THEN "fresh" ELSE "off"
    /\ loaded = -1 /\ attempts = NoAttempts /\ tried = NoneTried /\ wait = NoWait
    /\ last_ok = -1 /\ rotated = NoRotation /\ entry = NoEntry
    /\ StreamIdle
    /\ ParserIdle
    /\ RequestIdle
    /\ ConcIdle
    /\ JobsIdle

Next ==
    \/ \E src \in KeyLists : GetCompletion(src)
    \/ \E o \in Outcomes : TryKey(o)
    \/ \E src \in KeyLists : RefreshApiKeys(src)
    \/ NextKey

Spec == Init /\ [][Next]_vars

\* entry of process_resumes_stream / process_jobs_stream
StreamInit ==
    /\ spc = "item"
    /\ direction \in Directions
    /\ total \in 0..MaxItems
    /\ minimum_score \in MinimumScores
    /\ max_missing_skills \in MaxMissingSkills
    /\ index = 0
    /\ results = <<>>
    /\ events = <<>>
    /\ progress = NoProgress
    /\ connected = TRUE
    /\ GatewayIdle
    /\ ParserIdle
    /\ RequestIdle
    /\ ConcIdle
    /\ JobsIdle

StreamNext ==
    \/ StartItem
    \/ \E ok \in BOOLEAN : Extract(ok)
    \/ \E a \in AnalysisOutcomes : Analyze(a)
    \/ EnterEmailPhase
    \/ SkipFailed
    \/ StartEmail
    \/ \E out \in {"ok", "raise"} : GenerateEmail(out)
    \/ Finish

StreamSpec == StreamInit /\ [][StreamNext]_vars

\* the stream and its consumer
CancelNext == StreamNext \/ Disconnect

CancelSpec == StreamInit /\ [][CancelNext]_vars

\* a completion text handed to parse_structured_response
ParseInit ==
    /\ ppc = "input"
    /\ text \in Texts
    /\ parsed = NoRecord
    /\ GatewayIdle
    /\ StreamIdle
    /\ RequestIdle
    /\ ConcIdle
    /\ JobsIdle

ParseNext == ParseStructuredResponse

ParseSpec == ParseInit /\ [][ParseNext]_vars

\* the arguments of a get_completion call
RequestInit ==
    /\ rpc = "input"
    /\ call_args \in [type : CompletionTypes, custom : CustomMessages, kwargs : KwargSets]
    /\ request = NoRequest
    /\ GatewayIdle
    /\ StreamIdle
    /\ ParserIdle
    /\ ConcIdle
    /\ JobsIdle

RequestNext == SendRequest

RequestSpec == RequestInit /\ [][RequestNext]_vars

\* the instance after construction, no call started
ConcInit ==
    /\ api_keys \in ConcKeyLists \ {<<>>}
    /\ current_key_index = 0
    /\ pc = "off" /\ model = 0
    /\ original_key_index = 0 /\ retry_cycle = 0 /\ key_attempt = 0
    /\ rate_limited_count = 0 /\ result = NoResult /\ calls = 0
    /\ last = NoAttempt /\ some_ok = FALSE /\ all_auth = TRUE /\ scen = "off"
    /\ loaded = -1 /\ attempts = NoAttempts /\ tried = NoneTried /\ wait = NoWait
    /\ last_ok = -1 /\ rotated = NoRotation /\ entry = NoEntry
    /\ procs = [p \in ProcIds |-> IdleProc]
    /\ StreamIdle
    /\ ParserIdle
    /\ RequestIdle
    /\ JobsIdle

ConcNext ==
    \E p \in ProcIds :
       \/ \E src \in ConcKeyLists : ConcStart(p, src)
       \/ \E o \in Outcomes : ConcRespond(p, o)
       \/ ConcWake(p)
       \/ ConcBackoffOver(p)

ConcSpec == ConcInit /\ [][ConcNext]_vars

\* the forms of the job-description requests
JobForms ==
    [job_texts : UNION { [1..n -> JobTexts] : n \in 0..MaxJobTexts },
     job_files : UNION { [1..n -> [filename : FileNames, text : JobTexts]] :
                         n \in 0..MaxJobFiles }]

JobsInit ==
    /\ jpc = "form"
    /\ job_form \in JobForms
    /\ job_descriptions = <<>> /\ job_results = <<>> /\ email_index = 0 /\ lookups = <<>>
    /\ GatewayIdle
    /\ StreamIdle
    /\ ParserIdle
    /\ RequestIdle
    /\ ConcIdle

JobsNext ==
    \/ CollectJobs
    \/ \E out \in {"good", "poor", "error"} : JobAnalyzed(out)
    \/ JobEmail

JobsSpec == JobsInit /\ [][JobsNext]_vars

(* ================================ claims =============================== *)

\* a step of the gateway that makes one backend request
IsAttempt == pc = "attempt" /\ vars' # vars

\* C1: if every (model, credential) attempt of a get_completion call failed,
\* the call ends by raising; it returns no value, in particular no empty
\* string.
C1_ExhaustionRaises ==
    (pc = "done" /\ ~some_ok) => (result.kind = "raise" /\ result # Text(0))

C1_Witness ==
    /\ pc = "done" /\ ~some_ok /\ result.kind = "raise"
    /\ last.model = NumModels /\ last.class \in {"timeout", "rate", "auth", "model", "other"}

\* C2: when every attempt on the first model failed with an authorization
\* error and the first attempt on the second model, with the first credential
\* it tries, succeeds (returns a non-empty text), the call returns the second
\* model's text and does not raise.
C2_SecondModelAnswers ==
    [][ ( /\ pc = "attempt" /\ model = 2 /\ retry_cycle = 0 /\ key_attempt = 0
          /\ last.model = 1 /\ all_auth
          /\ last'.model = 2 /\ last'.class = "ok" )
        => (pc' = "done" /\ result' = Text(2)) ]_vars

C2_Witness ==
    /\ pc = "done" /\ result = Text(2) /\ all_auth
    /\ last.model = 2 /\ last.key = original_key_index /\ last.class = "ok"
    /\ Len(api_keys) >= 2

\* C3: the models are attempted in list order: the first attempt is on the
\* first model, an attempt is on the model of the attempt before it or on the
\* next one, never after a successful attempt; a successful attempt (one that
\* returns a non-empty text) ends the call and its text is the value returned.
C3_ModelOrder ==
    [][ IsAttempt =>
          /\ last.class # "ok"
          /\ last'.model = model
          /\ IF last.class = "none" THEN model = 1
             ELSE model \in {last.model, last.model + 1}
          /\ (last'.class = "ok" => (pc' = "done" /\ result' = Text(model))) ]_vars

C3_Witness ==
    pc = "done" /\ result = Text(3) /\ last.model = 3 /\ last.class = "ok"

\* C4: with a pool of 2 credentials, credential 1 always rate-limited and
\* credential 2 always succeeding (returning a non-empty text), every call
\* that ends has returned a text obtained with credential 2, and every call
\* after the first makes its first attempt with credential 2.
C4_StartsFromWorkingKey ==
    /\ []((scen = "on" /\ pc = "done") =>
             (result.kind = "text" /\ last.key = 1 /\ last.class = "ok"))
    /\ [][ (IsAttempt /\ last.class = "none" /\ calls >= 2 /\ scen' = "on")
           => last'.key = 1 ]_vars

C4_Witness ==
    /\ scen = "on" /\ calls >= 2 /\ pc = "done"
    /\ result.kind = "text" /\ last.key = 1 /\ original_key_index = 1

\* C5 as stated: a successful call leaves the current index at the value it
\* had when the attempt sequence started.
C5_IndexRestoredOnSuccess ==
    (pc = "done" /\ result.kind = "text") => current_key_index = original_key_index

\* C5 as amended: a successful attempt leaves the current index at the
\* credential that succeeded; nothing restores it before the text is returned.
C5_IndexStaysOnWorkingKey ==
    (pc = "done" /\ result.kind = "text") => current_key_index = last.key

C5_Witness ==
    /\ pc = "done" /\ result.kind = "text"
    /\ current_key_index = last.key /\ current_key_index # original_key_index

\* strictly grows with every step of the generator and is bounded by the
\* batch size: no run of the stream goes on for ever
StreamProgress ==
    3 * Len(events) + index + (IF spc \in {"email", "send", "closed"} THEN total + 1 ELSE 0)

\* some step of the generator is possible: in the email step one of its
\* outcomes, elsewhere one of the other actions
StreamCanStep ==
    IF spc = "send"
    THEN EmailOutcomes(direction,
                       IsAcceptable(results[index + 1], minimum_score, max_missing_skills)) # {}
    ELSE ENABLED ( \/ StartItem
                   \/ \E ok \in BOOLEAN : Extract(ok)
                   \/ \E a \in AnalysisOutcomes : Analyze(a)
                   \/ EnterEmailPhase \/ SkipFailed \/ StartEmail \/ Finish )

CompleteEvents == { k \in 1..Len(events) : events[k].type = "complete" }

\* C6: every run of the stream ends with exactly one event of type complete,
\* at percentage 100, carrying one result record per input item in input
\* order; it is the last event and no complete event occurs before it.  The
\* generator can always take a step until that event is out, and every step
\* brings it closer (StreamProgress grows and is bounded).
C6_EndsWithOneComplete ==
    /\ [](CompleteEvents \subseteq {Len(events)})
    /\ [](spc = "closed" =>
            /\ CompleteEvents = {Len(events)}
            /\ events[Len(events)].pct = 100
            /\ events[Len(events)].payload = results
            /\ Len(results) = total
            /\ \A i \in 1..total : results[i].item = i)
    /\ [](spc # "closed" => StreamCanStep)
    /\ [](StreamProgress <= 17 * total + 4)
    /\ [][StreamProgress' > StreamProgress]_vars

C6_Witness ==
    /\ spc = "closed" /\ total = 3
    /\ events[Len(events)].type = "complete"
    /\ \E i \in 1..3 : results[i].error
    /\ \E i \in 1..3 : results[i].email_error

OutcomeEvents(i) ==
    { k \in 1..Len(events) : events[k].item = i /\ events[k].status \in {"analyzed", "error"} }
FirstEvents(i) ==
    { k \in 1..Len(events) : events[k].item = i
                             /\ events[k].status = (IF direction = "resumes" THEN "processing"
                                                    ELSE "analyzing")
                             /\ events[k].payload = <<>> /\ events[k].pct = AnalysisPct(i - 1, 0, total) }

\* C7: a failure while processing an item touches that item only: its record
\* is an error record with score 0 and no missing skills, exactly one event
\* with status error is emitted for it, and every later item is still taken
\* up and gets its own outcome.
C7_FailureIsPerItem ==
    /\ \A i \in 1..Len(results) :
          results[i].error =>
             /\ results[i].score = 0 /\ results[i].missing_skills = <<>>
             /\ \E k \in 1..Len(events) :
                   /\ events[k].status = "error" /\ events[k].payload = <<results[i]>>
                   /\ OutcomeEvents(results[i].item) = {k}
    /\ spc = "closed" =>
          \A i \in 1..total :
             /\ FirstEvents(i) # {}
             /\ Cardinality(OutcomeEvents(i)) = 1
             /\ results[i].item = i
             /\ results[i].error <=> (\E k \in OutcomeEvents(i) : events[k].status = "error")

C7_Witness ==
    /\ spc = "closed" /\ total = 3 /\ direction = "resumes"
    /\ ~results[1].error /\ results[2].error /\ ~results[3].error
    /\ results[2].score = 0 /\ results[2].missing_skills = <<>>
    /\ \E k \in 1..Len(events) : events[k].status = "analyzed" /\ events[k].item = 3

\* C8: every emitted event carries an integer percentage in [0,100] and no
\* event has a lower percentage than an event emitted before it.
C8_PercentageMonotone ==
    /\ \A k \in 1..Len(events) : events[k].pct \in 0..100
    /\ \A k \in 1..Len(events) - 1 : events[k].pct <= events[k + 1].pct

C8_Witness ==
    /\ spc = "closed" /\ total = 3
    /\ \E k \in 1..Len(events) : events[k].status = "error" /\ events[k].pct > 0
    /\ \E k \in 1..Len(events) : events[k].status = "generating_email" /\ events[k].pct > 90

AnalysisStatus == {"processing", "analyzing", "analyzed", "error"}

\* C9: items are processed in input order, one at a time: the first event of
\* item i+1 follows the outcome event of item i, the analysis of an item is
\* called only when every item before it has its record, and the i-th record
\* belongs to the i-th item.
C9_InputOrder ==
    /\ \A i \in 1..Len(results) : results[i].item = i
    /\ spc \in {"extract", "analyze"} => Len(results) = index
    /\ \A k \in 1..Len(events) :
          events[k].status \in AnalysisStatus =>
             IF k = 1 THEN events[k].item = 1 /\ events[k].status \notin {"analyzed", "error"}
             ELSE /\ events[k - 1].status \in AnalysisStatus
                  /\ IF events[k - 1].status \in {"analyzed", "error"}
                     THEN /\ events[k].item = events[k - 1].item + 1
                          /\ events[k].status \notin {"analyzed", "error"}
                     ELSE events[k].item = events[k - 1].item

C9_Witness ==
    /\ spc = "analyze" /\ index = 2 /\ Len(results) = 2
    /\ results[1].item = 1 /\ results[2].item = 2
    /\ events[Len(events)].item = 3

SuccessfulItems == { i \in 1..Len(results) : ~results[i].error }
Acceptable(i) ==
    /\ results[i].score >= minimum_score
    /\ Len(results[i].missing_skills) <= max_missing_skills
TopScore(i) == \A j \in SuccessfulItems : results[j].score <= results[i].score
FewestMissingAtTop(i) ==
    \A j \in SuccessfulItems :
       TopScore(j) => Len(results[i].missing_skills) <= Len(results[j].missing_skills)

C11_TiesAllFlagged ==
    spc = "closed" =>
       \A i \in SuccessfulItems : \A j \in SuccessfulItems :
          ( /\ Acceptable(i) /\ TopScore(i) /\ FewestMissingAtTop(i)
            /\ results[j].score = results[i].score
            /\ Len(results[j].missing_skills) = Len(results[i].missing_skills) )
          => (results[i].is_best_match = TRUE /\ results[j].is_best_match = TRUE)

C11_Witness ==
    /\ spc = "closed" /\ Len(results) = 3
    /\ Cardinality({ i \in SuccessfulItems : results[i].is_best_match = TRUE }) >= 2

\* the email step of item i went through
EmailDone(i) == results[i].email # Absent

\* C12: for a successfully analyzed item whose email step does not fail the
\* email type follows from acceptability alone: acceptance / rejection in the
\* resumes direction, application / no_application in the jobs direction;
\* at the end every such item has its email and its type.
C12_EmailTypeByAcceptability ==
    /\ \A i \in SuccessfulItems :
          EmailDone(i) =>
             results[i].email_type =
                (IF direction = "resumes"
                 THEN (IF Acceptable(i) THEN "acceptance" ELSE "rejection")
                 ELSE (IF Acceptable(i) THEN "application" ELSE "no_application"))
    /\ spc = "closed" =>
          \A i \in SuccessfulItems : ~results[i].email_error => EmailDone(i)

C12_Witness ==
    /\ spc = "closed" /\ direction = "resumes"
    /\ \E i \in SuccessfulItems : Acceptable(i) /\ results[i].email_type = "acceptance"
    /\ \E i \in SuccessfulItems : ~Acceptable(i) /\ results[i].email_type = "rejection"
    /\ \E i \in SuccessfulItems : results[i].email_error

\* the items whose analysis failed, as the event stream shows them
FailedItems == { events[k].item : k \in { n \in 1..Len(events) : events[n].status = "error" } }
RankedItems == (1..Len(results)) \ FailedItems
TopAmongRanked(i) == \A j \in RankedItems : results[j].score <= results[i].score
FewestAmongRanked(i) ==
    \A j \in RankedItems :
       TopAmongRanked(j) => Len(results[i].missing_skills) <= Len(results[j].missing_skills)

\* C13: an item whose analysis failed is left out of the ranking: its
\* placeholder score 0 and empty list do not count for the best score or the
\* minimum missing-skill count, and its record is never flagged best match
\* and never gets an email or an email type.
C13_FailedItemsNotRanked ==
    /\ \A k \in 1..Len(events) :
          events[k].item \in FailedItems => events[k].status \in {"processing", "analyzing", "error"}
    /\ \A i \in FailedItems :
          i <= Len(results) =>
             /\ results[i].is_best_match = Absent
             /\ results[i].email = Absent
             /\ results[i].email_type = Absent
    /\ spc = "closed" =>
          \A i \in RankedItems :
             results[i].is_best_match <=>
                (Acceptable(i) /\ TopAmongRanked(i) /\ FewestAmongRanked(i))

C13_Witness ==
    /\ spc = "closed" /\ Len(results) = 2
    /\ FailedItems = {1} /\ results[1].score = 0 /\ results[1].missing_skills = <<>>
    /\ results[2].score = 0 /\ Len(results[2].missing_skills) = 1
    /\ results[2].is_best_match = TRUE /\ results[1].is_best_match = Absent

\* C19: when the reload at the start of get_completion finds no credential
\* (or fails before it has read any), the pool and the current index stay as
\* they were, the call does not end with the reload's exception, and it goes
\* on to attempt the first model with the previous pool.
C19_ReloadFailureKeepsPool ==
    /\ [][ (pc \in {"idle", "done"} /\ calls' = calls + 1 /\ loaded' = 0)
           => /\ api_keys' = api_keys
              /\ current_key_index' = current_key_index
              /\ pc' = "attempt" /\ model' = 1 /\ result' = NoResult
              /\ original_key_index' = current_key_index ]_vars
    /\ [][ (IsAttempt /\ last.class = "none" /\ loaded = 0)
           => (last'.model = 1 /\ last'.key = current_key_index) ]_vars

C19_Witness ==
    /\ loaded = 0 /\ calls >= 2 /\ pc = "done" /\ result.kind = "text"
    /\ Len(api_keys) = 3 /\ current_key_index = 2

\* C20: after construction, whatever reloads (shrinking or growing the
\* pool), rotations and get_completion calls have run, the pool holds at
\* least one credential and 0 <= current index < pool size.
C20_PoolInvariant ==
    /\ Len(api_keys) >= 1
    /\ current_key_index \in 0..(Len(api_keys) - 1)

C20_Witness ==
    /\ loaded = 1 /\ Len(api_keys) = 1 /\ current_key_index = 0
    /\ pc = "idle" /\ last.class = "ok" /\ last.key = 2

(* ---------------------------- parser claims ---------------------------- *)

\* the lines of the text and whether one of them starts with `key:`
TextLines == Split(text, "\n")
HasLine(key) == \E k \in 1..Len(TextLines) : StartsWith(Strip(TextLines[k]), key \o ":")

\* a text made of one Score line / one Missing Skills line, and its value
ScoreLine == StartsWith(text, "Score:") /\ ~Contains(text, "\n")
ScoreValue == Strip(SubSeq(text, Len("Score:") + 1, Len(text)))
SkillsLine == StartsWith(text, "Missing Skills:") /\ ~Contains(text, "\n")
SkillsValue == Strip(SubSeq(text, Len("Missing Skills:") + 1, Len(text)))

\* decimal numerals: an optional minus sign, digits, at most one point
IsDigits(s) == \A i \in 1..Len(s) : IsDigit(Char(s, i))
Unsigned(w) == IF StartsWith(w, "-") THEN Tail(w) ELSE w
IsNumeral(w) ==
    LET u == Unsigned(w)
    IN \/ u # "" /\ IsDigits(u)
       \/ \E k \in 1..Len(u) :
             /\ Char(u, k) = "." /\ Len(u) > 1
             /\ IsDigits(SubSeq(u, 1, k - 1)) /\ IsDigits(SubSeq(u, k + 1, Len(u)))
WholePart(w) ==
    LET u == Unsigned(w)
    IN IF Contains(u, ".") THEN DecValue(SubSeq(u, 1, SetMin(Positions(u, ".")) - 1))
       ELSE DecValue(u)

\* the score of a Score line whose value, cleaned of its % sign(s), is w
ScoreFollows(w) ==
    /\ ~IsNumeral(w) => parsed.score = Zero
    /\ (IsNumeral(w) /\ StartsWith(w, "-")) => parsed.score = Zero
    /\ (IsNumeral(w) /\ ~StartsWith(w, "-")) =>
          /\ WholePart(w) >= 101 => parsed.score = Hundred
          /\ WholePart(w) <= 99 => parsed.score.num \div parsed.score.den = WholePart(w)
          /\ ~Contains(w, ".") =>
                parsed.score = (IF WholePart(w) > 100 THEN Hundred ELSE Number(WholePart(w), 1))

ScoreInRange ==
    /\ parsed.score.den >= 1
    /\ 0 <= parsed.score.num
    /\ parsed.score.num <= 100 * parsed.score.den

ScoreExamples ==
    /\ text = "Score: 137%" => parsed.score = Hundred
    /\ text = "Score: -5" => parsed.score = Zero
    /\ text = "Score: 85.5%" => parsed.score = Number(855, 10)
    /\ text = "Score: high" => parsed.score = Zero

\* C14: parse_structured_response never raises; for malformed, partial or
\* empty text the record still has score, missing_skills and remarks, with 0
\* and the empty list when their line is absent or unparsable and the fixed
\* placeholder as remarks when no Remarks line is there.
C14_NeverRaisesDefaults ==
    /\ ppc # "raised"
    /\ ppc = "returned" =>
          /\ DOMAIN parsed = {"score", "missing_skills", "remarks"}
          /\ ~HasLine("Score") => parsed.score = Zero
          /\ ~HasLine("Missing Skills") => parsed.missing_skills = <<>>
          /\ ~HasLine("Remarks") => parsed.remarks = Placeholder
          /\ (ScoreLine /\ Contains(ScoreValue, "x")) => parsed.score = Zero

C14_Witness ==
    /\ ppc = "returned" /\ text = "Score:x1 "
    /\ parsed = [score |-> Zero, missing_skills |-> <<>>, remarks |-> Placeholder]

\* C15 as stated: the score lies in [0,100]; above 100 gives 100, negative
\* gives 0, one trailing % is ignored, and a value that is not a number
\* gives 0.
C15_TrailingPercentOnly ==
    ppc = "returned" =>
       /\ ScoreInRange
       /\ ScoreExamples
       /\ ScoreLine =>
             ScoreFollows(IF ScoreValue # "" /\ Char(ScoreValue, Len(ScoreValue)) = "%"
                          THEN Strip(SubSeq(ScoreValue, 1, Len(ScoreValue) - 1))
                          ELSE ScoreValue)

\* C15 as amended: the score lies in [0,100]; every % sign of the value is
\* dropped before the number is read; what is left gives 100 when above 100,
\* 0 when negative and 0 when it is not a number.
C15_ScoreClamped ==
    ppc = "returned" =>
       /\ ScoreInRange
       /\ ScoreExamples
       /\ ScoreLine =>
             ScoreFollows(Strip(Remove(ScoreValue, "%")))

C15_Witness ==
    /\ ppc = "returned" /\ text = "Score:1%7" /\ parsed.score = Number(17, 1)

\* the sentinel values and the separator priority, as the contract lists them
SentinelWords == {"[]", "none", "n/a", "-", "", "no missing skills"}
Priority == <<",", ";", "\n", "*", "-">>
PresentSeparators(v) == { k \in 1..Len(Priority) : Contains(v, Priority[k]) }
FirstSeparator(v) == Priority[SetMin(PresentSeparators(v))]

\* the trimmed pieces of v between the occurrences of sep, in text order
Pieces(v, sep) ==
    LET P == Positions(v, sep)
        n == Cardinality(P)
        pos(k) == CHOOSE p \in P : Cardinality({ q \in P : q < p }) = k - 1
        first(k) == IF k = 1 THEN 1 ELSE pos(k - 1) + 1
        last_(k) == IF k = n + 1 THEN Len(v) ELSE pos(k) - 1
    IN [k \in 1..(n + 1) |-> Strip(SubSeq(v, first(k), last_(k)))]

Entries == { parsed.missing_skills[k] : k \in 1..Len(parsed.missing_skills) }

\* C16: a Missing Skills value that is no sentinel is split on one separator
\* only, the first present in the order comma, semicolon, newline, bullet,
\* hyphen: the list holds, in text order, pieces between occurrences of that
\* separator (so lower-priority separators stay inside the entries), every
\* piece longer than one character that is no sentinel word among them.
C16_FirstSeparatorOnly ==
    ppc = "returned" =>
       /\ text = "Missing Skills: Go, Rust, C++" =>
             parsed.missing_skills = <<"Go", "Rust", "C++">>
       /\ (SkillsLine /\ Lower(SkillsValue) \notin SentinelWords
             /\ PresentSeparators(SkillsValue) # {}) =>
             LET pieces == Pieces(SkillsValue, FirstSeparator(SkillsValue))
             IN /\ parsed.missing_skills = SelectSeq(pieces, LAMBDA s : s \in Entries)
                /\ \A k \in 1..Len(pieces) :
                      (Len(pieces[k]) > 1 /\ Lower(pieces[k]) \notin SentinelWords)
                         => pieces[k] \in Entries

C16_Witness ==
    /\ ppc = "returned" /\ text = "Missing Skills: Go; C-3, Rust"
    /\ parsed.missing_skills = <<"Go; C-3", "Rust">>

\* C17: a Missing Skills value that, trimmed and lower-cased, is one of the
\* sentinels gives the empty list, that is zero missing skills.
C17_SentinelsGiveEmptyList ==
    (ppc = "returned" /\ SkillsLine /\ Lower(SkillsValue) \in SentinelWords) =>
       (parsed.missing_skills = <<>> /\ Len(parsed.missing_skills) = 0)

C17_Witness ==
    /\ ppc = "returned" /\ text = "Missing Skills: No Missing Skills"
    /\ parsed.missing_skills = <<>>

\* C18: every entry of the parsed missing-skills list is trimmed, non-empty,
\* longer than one character and no sentinel word, with or without a
\* separator in the value.
C18_EntriesWellFormed ==
    ppc = "returned" =>
       \A s \in Entries :
          /\ s = Strip(s)
          /\ s # ""
          /\ Len(s) > 1
          /\ Lower(s) \notin SentinelWords

(* ------------------------ gateway claims, continued -------------------- *)

\* C21: rotate walks from (current index + 1) mod size and gives none when
\* the walk comes back to the index it started from (or when every
\* credential is marked failed within the last hour), so what it returns is
\* never the credential it started from.
C21_RotateStopsAtOrigin ==
    rotated # NoRotation =>
       /\ rotated.to \in {-1, (rotated.from + 1) % Len(api_keys)}
       /\ rotated.to # rotated.from

\* C22: the error raised when every model is exhausted carries the error of
\* the last failed attempt.
C22_CarriesLastError ==
    (pc = "done" /\ result.kind = "raise" /\ attempts.total > 0
        /\ last.class \in {"timeout", "rate", "auth", "model", "other"})
       => result.error = last.class

\* requests one model can get in one call
AttemptLimit == max_retry_attempts * Len(api_keys)

\* C23: every get_completion call ends, with a text or by raising, when each
\* request ends: every request adds one to the count of the call, the count
\* is below (number of models) x R x (pool size) while the call is running,
\* and no model gets more than R x (pool size) requests (the pool size being
\* the one the call started with).
C23_BoundedAttempts ==
    /\ [](pc \in {"attempt", "done"} =>
             (attempts.on <= AttemptLimit /\ attempts.total <= NumModels * AttemptLimit))
    /\ [](pc = "attempt" =>
             (attempts.total < NumModels * AttemptLimit /\ ENABLED (\E o \in Outcomes : TryKey(o))))
    /\ [](pc = "done" => result.kind \in {"text", "raise"})
    /\ [][IsAttempt => attempts'.total = attempts.total + 1]_vars

C23_Witness ==
    /\ pc = "done" /\ result.kind = "raise" /\ Len(api_keys) = 3
    /\ attempts.on = AttemptLimit /\ attempts.total = NumModels * AttemptLimit

\* the keys of a cycle are requested once each, in cyclic index order
CyclicOnce ==
    /\ \A k \in 1..Len(tried.keys) : tried.keys[k] # last'.key
    /\ tried.keys # <<>> =>
          last'.key = (tried.keys[Len(tried.keys)] + 1) % Len(api_keys)

\* C24 as stated: within one cycle each credential is attempted at most
\* once, in cyclic index order, and the first one attempted is the one right
\* after the credential that last succeeded.
C24_StartsAfterLastSuccess ==
    [][ IsAttempt =>
          /\ CyclicOnce
          /\ (tried.keys = <<>> /\ last_ok >= 0) =>
                last'.key = (last_ok + 1) % Len(api_keys) ]_vars

\* C24 as amended: within one cycle each credential is attempted at most
\* once, in cyclic index order, and the first one attempted is the credential
\* that last succeeded itself (the pool's current credential), as long as no
\* rotation and no index-resetting reload has moved the index since.
C24_StartsAtLastSuccess ==
    [][ IsAttempt =>
          /\ CyclicOnce
          /\ (tried.keys = <<>> /\ last_ok >= 0) => last'.key = last_ok ]_vars

C24_Witness ==
    /\ pc = "attempt" /\ Len(api_keys) = 3 /\ last_ok = 2
    /\ tried.keys = <<2, 0>> /\ retry_cycle = 1

\* C25: after a request that failed with the model-not-available signal (and
\* no rate-limit or authorization signal in the same error) the model gets no
\* further request in this call: the call goes on with the next model, or
\* ends by raising when the model was the last one.
C25_ModelSignalAbandonsModel ==
    [][ (IsAttempt /\ last'.sig = {"model"}) =>
           \/ pc' = "attempt" /\ model' = model + 1 /\ retry_cycle' = 0 /\ key_attempt' = 0
           \/ pc' = "done" /\ model = NumModels /\ result'.kind = "raise" ]_vars

C25_Witness ==
    /\ pc = "attempt" /\ model = 2 /\ last.model = 1 /\ last.sig = {"model"}
    /\ Len(api_keys) = 3 /\ attempts.on = 1 /\ tried.keys = <<>>

\* C26: after a request that failed with an authorization or invalid-key
\* signal the next credential is requested without any wait in between.
C26_NoWaitAfterAuth ==
    [][ (IsAttempt /\ last'.sig = {"auth"} /\ pc' = "attempt" /\ model' = model)
           => wait' = NoWait ]_vars

\* C27: when every credential was rate-limited within one cycle and cycles
\* remain, the next cycle on the same model starts after a backoff of
\* retry_delay x 2^cycle and not otherwise, it goes through the credentials
\* again until one answers or all were requested, and no model gets more
\* than R cycles.
C27_BackoffBetweenCycles ==
    /\ [](retry_cycle < max_retry_attempts)
    /\ [][ (IsAttempt /\ tried.all_rate /\ Len(tried.keys) = Len(api_keys) - 1
              /\ last'.class = "rate" /\ retry_cycle < max_retry_attempts - 1)
           => /\ pc' = "attempt" /\ model' = model /\ retry_cycle' = retry_cycle + 1
              /\ wait' = [kind |-> "backoff", seconds |-> retry_delay * (2 ^ (retry_cycle + 1))]
              /\ tried' = NoneTried /\ key_attempt' = 0 ]_vars
    /\ [][ (retry_cycle' > retry_cycle) =>
              (tried.all_rate /\ last'.class = "rate" /\ wait'.kind = "backoff") ]_vars
    /\ [][ (IsAttempt /\ retry_cycle >= 1 /\ (pc' = "done" \/ model' # model)) =>
              \/ Len(tried.keys) = Len(api_keys) - 1
              \/ last'.class \in {"ok", "empty", "model"} ]_vars

C27_Witness ==
    /\ pc = "attempt" /\ retry_cycle = 1 /\ Len(api_keys) = 3 /\ attempts.on = 3
    /\ wait = [kind |-> "backoff", seconds |-> 4] /\ tried = NoneTried

(* ------------------------ stream claims, continued --------------------- *)

\* the key is in the dict
HasKey(v) == ToString(v) # ToString(Absent)

\* the events that tell the outcome of an item's analysis, before event k
OutcomesBefore(k) ==
    { j \in 1..(k - 1) : events[j].type = "progress" /\ events[j].status \in {"analyzed", "error"} }

\* the best-match rule over the records of the whole batch
BatchBest(i) ==
    LET all == { j \in 1..total : ~results[j].error }
        top == { j \in all : \A n \in all : results[n].score <= results[j].score }
    IN /\ Acceptable(i)
       /\ i \in top
       /\ \A j \in top : Len(results[i].missing_skills) <= Len(results[j].missing_skills)

\* C28: the email phase starts only after the whole batch is analyzed: every
\* generating_email event comes after the analysis outcome events of all
\* items, no record holds a best-match flag, an email or an email type before
\* the results list holds the outcome of every item, and a flag that is set
\* is the best-match rule taken over the records of the entire batch.
C28_EmailPhaseAfterBatch ==
    /\ \A k \in 1..Len(events) :
          events[k].status \in {"generating_email", "complete"} =>
             Cardinality(OutcomesBefore(k)) = total
    /\ \A i \in 1..Len(results) :
          (HasKey(results[i].is_best_match) \/ HasKey(results[i].email)
              \/ HasKey(results[i].email_type)) =>
             /\ Len(results) = total
             /\ Cardinality(OutcomesBefore(Len(events) + 1)) = total
             /\ results[i].is_best_match <=> BatchBest(i)

\* the first item is acceptable and the best of every proper prefix of the
\* batch, the last item beats it: the first item is not flagged
C28_Witness ==
    /\ spc = "email" /\ index = 1 /\ total = 3 /\ SuccessfulItems = {1, 2, 3}
    /\ Acceptable(1) /\ results[1].score = 70 /\ results[2].score = 0 /\ results[3].score = 90
    /\ results[1].is_best_match = FALSE

\* the record of item i as its analyzed event showed it
AnalyzedAs(i) ==
    LET k == CHOOSE n \in 1..Len(events) :
                 events[n].status = "analyzed" /\ events[n].item = results[i].item
    IN events[k].payload[1]

EmailFailures == { i \in 1..Len(results) : results[i].email_error }

\* C29: an item whose email generation failed keeps the score, the
\* missing-skills list and the remarks of its analysis, holds the error
\* annotation and neither an email nor an email type, in the results list and
\* in the final event; the failing step changes no other record and goes on
\* to the next item, and at the end every successfully analyzed item has had
\* its generating_email event and holds either an email with its type or the
\* error annotation.
C29_EmailFailureKeepsAnalysis ==
    /\ [](\A i \in EmailFailures :
             /\ ~results[i].error
             /\ ~HasKey(results[i].email) /\ ~HasKey(results[i].email_type)
             /\ results[i].score = AnalyzedAs(i).score
             /\ results[i].missing_skills = AnalyzedAs(i).missing_skills
             /\ results[i].remarks = AnalyzedAs(i).remarks)
    /\ [](spc = "closed" =>
             /\ events[Len(events)].payload = results
             /\ \A i \in SuccessfulItems :
                   /\ \E k \in 1..Len(events) :
                         events[k].status = "generating_email" /\ events[k].item = i
                   /\ results[i].email_error <=> ~HasKey(results[i].email)
                   /\ HasKey(results[i].email) <=> HasKey(results[i].email_type))
    /\ [][ (spc = "send" /\ spc' # "send") =>
              /\ spc' = "email" /\ index' = index + 1 /\ Len(results') = Len(results)
              /\ results'[index + 1].email_error \/ HasKey(results'[index + 1].email)
              /\ \A j \in 1..Len(results) :
                    j # index + 1 => ToString(results'[j]) = ToString(results[j]) ]_vars

\* the email of item 1 failed, the email of item 2 was written after it
C29_Witness ==
    /\ spc = "closed" /\ total = 3 /\ SuccessfulItems = {1, 2, 3}
    /\ results[1].email_error /\ results[1].score = 90 /\ results[1].missing_skills = <<"Go">>
    /\ results[2].email = "set" /\ results[3].email_error

\* a step that starts an item: the head of the item loop or of the email loop
StartsAnItem ==
    \/ spc = "item" /\ spc' \in {"extract", "analyze"}
    \/ spc = "email" /\ spc' = "send"

\* C30: once the consumer of the progress stream has disconnected, the
\* generator starts no further item: no analysis and no email generation
\* begins after the disconnect.
C30_NothingStartedAfterDisconnect ==
    [][ ~connected => ~StartsAnItem ]_vars

(* ---------------------------- request claims --------------------------- *)

\* C31: the backend request of a get_completion call carries exactly two
\* messages, the system message (the caller's override when one is given,
\* else the default of the profile) followed by the user prompt, and the
\* system message is not among the keyword arguments sent next to
\* temperature and max_tokens.
C31_TwoMessagesNoSystemParam ==
    rpc = "sent" =>
       /\ Len(request.messages) = 2
       /\ request.messages[1].role = "system" /\ request.messages[2].role = "user"
       /\ request.messages[2].content = <<"prompt">>
       /\ request.messages[1].content =
             IF Given(call_args.custom) THEN <<"custom", call_args.custom>>
             ELSE IF "system_message" \in call_args.kwargs THEN KwargValue("system_message")
             ELSE ProfileValue(call_args.type, "system_message")
       /\ "system_message" \notin DOMAIN request.params

(* ------------------------ gateway claims, third part ------------------- *)

\* C32: a model gets a second or later cycle only if every credential
\* request of the cycle before was answered by a rate-limit error; a cycle
\* in which some request failed by timeout, authorization error or other
\* error is the model's last one.
C32_NewCycleOnlyAfterAllRateLimited ==
    /\ [][ (retry_cycle' > retry_cycle) =>
              /\ IsAttempt /\ model' = model
              /\ Len(tried.keys) = Len(api_keys) - 1
              /\ tried.all_rate /\ last'.class = "rate" ]_vars
    /\ [][ ( /\ IsAttempt /\ Len(tried.keys) = Len(api_keys) - 1
              /\ last'.class \in {"timeout", "rate", "auth", "other"}
              /\ ~(tried.all_rate /\ last'.class = "rate") )
            => (pc' = "done" \/ model' = model + 1) /\ retry_cycle' = 0 ]_vars

\* the first model was left after one cycle of three requests whose last one
\* was rate-limited and one before it was not
C32_Witness ==
    /\ pc = "attempt" /\ model = 2 /\ Len(api_keys) = 3 /\ attempts.total = 3
    /\ last.model = 1 /\ last.class = "rate" /\ last.key = (original_key_index + 2) % 3

\* a request that failed: timeout or error
Failures == {"timeout", "rate", "auth", "model", "other"}

\* the attempts on the model end with this request, without a text
ModelEnds == IsAttempt /\ (pc' = "done" \/ model' # model) /\ last'.class # "ok"

\* C33 as stated: when the attempts on a model end without success the
\* current index is back at its value at the start of that model's attempts;
\* every model of one call starts from the same credential, and a call that
\* fails by exhaustion leaves the index as it was after the call's reload.
C33_EveryModelStartsFromSameIndex ==
    /\ [][ (ModelEnds /\ last'.class \in Failures) =>
              current_key_index' = original_key_index ]_vars
    /\ [](pc = "attempt" => original_key_index = entry.index)
    /\ []((pc = "done" /\ result.kind = "raise") => current_key_index = entry.index)

\* C33 as amended: when the attempts on a model end by a failed request
\* (credentials exhausted or model not available) the current index is back
\* at its value at the start of that model's attempts; when they end by an
\* empty text the index stays on the credential that returned it.  Hence, as
\* long as no request of the call returned an empty text, every model of the
\* call starts from the same credential and a call that fails by exhaustion
\* leaves the index as it was after the call's reload.
C33_IndexRestoredUnlessEmptyText ==
    /\ [][ (ModelEnds /\ last'.class \in Failures) =>
              current_key_index' = original_key_index ]_vars
    /\ [][ (ModelEnds /\ last'.class = "empty") => current_key_index' = last'.key ]_vars
    /\ []((pc = "attempt" /\ ~entry.empty) => original_key_index = entry.index)
    /\ []((pc = "attempt" /\ key_attempt = 0 /\ retry_cycle = 0) =>
             current_key_index = original_key_index)
    /\ []((pc = "done" /\ result.kind = "raise" /\ ~entry.empty) =>
             current_key_index = entry.index)

\* an exhausted call whose requests moved through the pool and that ends
\* where it started
C33_Witness ==
    /\ pc = "done" /\ result.kind = "raise" /\ ~entry.empty /\ Len(api_keys) = 3
    /\ entry.index = 1 /\ current_key_index = 1 /\ last.key = 0 /\ last.class = "timeout"

\* C35: a request that returns an empty text ends the attempts on its
\* model: the next request, if any, is the first one of the next model, and
\* after the last model the call raises the exhaustion error; a call that
\* returns a text returns the non-empty text of its last request.
C35_EmptyTextFailsModel ==
    /\ [][ (IsAttempt /\ last'.class = "empty") =>
              \/ pc' = "attempt" /\ model' = model + 1 /\ retry_cycle' = 0 /\ key_attempt' = 0
              \/ pc' = "done" /\ model = NumModels /\ result' = Raised ]_vars
    /\ []((pc = "done" /\ result.kind = "text") =>
             (last.class = "ok" /\ last.model = result.model))

\* five requests, one per model, the last one answered by an empty text
C35_Witness ==
    /\ pc = "done" /\ result.kind = "raise" /\ Len(api_keys) = 3
    /\ attempts.total = NumModels /\ last.model = NumModels /\ last.class = "empty"
    /\ entry.empty /\ current_key_index = entry.index

\* the request was not the last one its cycle can make
MoreCredentials == Len(tried.keys) < Len(api_keys) - 1

\* the handler went on to the next credential of the same cycle
ToNextCredential ==
    /\ pc' = "attempt" /\ model' = model /\ retry_cycle' = retry_cycle
    /\ key_attempt' = key_attempt + 1

\* C36: a failed request is handled as one class, by the precedence timeout,
\* rate-limit, authorization/quota, model-not-available, other.  An error
\* text with a rate-limit substring is handled as rate-limit whatever else it
\* holds (also the word model): it is counted, and the next credential is
\* tried; one with an authorization substring and no rate-limit substring is
\* not counted and the next credential is tried after the pause; one with
\* only a model substring ends the model at once; a timeout and any other
\* error go on to the next credential after the pause.
C36_ClassPrecedence ==
    [][ (IsAttempt /\ last'.class \in Failures) =>
          /\ last'.class = "timeout" => last'.sig = {}
          /\ "rate" \in last'.sig =>
                /\ last'.class = "rate"
                /\ MoreCredentials =>
                      /\ ToNextCredential
                      /\ rate_limited_count' = rate_limited_count + 1
                      /\ wait' = Delay
          /\ ("rate" \notin last'.sig /\ "auth" \in last'.sig) =>
                /\ last'.class = "auth"
                /\ MoreCredentials =>
                      /\ ToNextCredential
                      /\ rate_limited_count' = rate_limited_count
                      /\ wait' = Delay
          /\ last'.sig = {"model"} =>
                /\ last'.class = "model"
                /\ pc' = "done" \/ model' = model + 1
                /\ wait' = NoWait
          /\ last'.sig = {} =>
                /\ last'.class \in {"timeout", "other"}
                /\ MoreCredentials =>
                      /\ ToNextCredential
                      /\ rate_limited_count' = rate_limited_count
                      /\ wait' = Delay ]_vars

\* the first request of a call failed with an error text holding a
\* rate-limit and a model substring: the second credential is next
C36_Witness ==
    /\ pc = "attempt" /\ model = 1 /\ key_attempt = 1 /\ attempts.total = 1
    /\ last.sig = {"rate", "model"} /\ last.class = "rate" /\ rate_limited_count = 1

(* --------------------------- concurrency claims ------------------------ *)

\* C34: when two get_completion calls on one instance interleave at their
\* awaits and the reload of one replaces the pool by a smaller one while the
\* other is in progress, the current index stays within the pool and no call
\* reads the pool at an index outside it.
C34_IndexAlwaysInRange ==
    /\ current_key_index < Len(api_keys)
    /\ \A p \in DOMAIN procs : ~procs[p].index_error

(* ------------------------ stream claims, third part -------------------- *)

\* the successful items with the top score and the fewest missing skills at
\* that score
TopCandidates == { i \in SuccessfulItems : TopScore(i) /\ FewestMissingAtTop(i) }

PositiveType == IF direction = "resumes" THEN "acceptance" ELSE "application"

\* C38 as stated: in the final results every item flagged best match has an
\* email and the positive email type, whatever the email generations did.
C38_FlaggedHasPositiveEmail ==
    spc = "closed" =>
       \A i \in SuccessfulItems :
          results[i].is_best_match =>
             HasKey(results[i].email) /\ results[i].email_type = PositiveType

\* C38, amended: in the final results an item flagged best match whose email
\* generation went through has an email and the positive email type; one
\* whose email generation failed has the error annotation and neither an
\* email nor an email type.
C38_FlaggedHasPositiveEmailOrError ==
    spc = "closed" =>
       \A i \in SuccessfulItems :
          results[i].is_best_match =>
             IF results[i].email_error
             THEN ~HasKey(results[i].email) /\ ~HasKey(results[i].email_type)
             ELSE HasKey(results[i].email) /\ results[i].email_type = PositiveType

\* two items tie as best match; the email of one is generated, that of the
\* other fails
C38_Witness ==
    /\ spc = "closed" /\ direction = "resumes" /\ total = 2
    /\ SuccessfulItems = {1, 2}
    /\ results[1].is_best_match /\ results[2].is_best_match
    /\ ~results[1].email_error /\ results[1].email_type = "acceptance"
    /\ results[2].email_error

\* the events of the email phase
EmailPhaseEvents ==
    SelectSeq(events, LAMBDA e : e.type = "progress"
                                    /\ e.status \in {"generating_email", "complete"})

\* the successfully analyzed items, in input order
SuccessfulInOrder == Successful(results)

\* C39: the email-phase events are, for each successfully analyzed item in
\* input order, one generating_email event and then one progress event with
\* status complete for the same item, before any event of a later item;
\* failed items have none, and the phase ends with exactly these two events
\* for every successful item (none at all when every item failed).
C39_EmailPhaseEventOrder ==
    LET ev == EmailPhaseEvents
    IN /\ spc \in {"item", "extract", "analyze"} => ev = <<>>
       /\ Len(ev) <= 2 * Len(SuccessfulInOrder)
       /\ \A k \in 1..Len(ev) :
             /\ ev[k].status = (IF k % 2 = 1 THEN "generating_email" ELSE "complete")
             /\ ev[k].item = SuccessfulInOrder[(k + 1) \div 2].item
       /\ spc = "email" => Len(ev) % 2 = 0
       /\ spc = "send" => Len(ev) % 2 = 1
       /\ spc = "closed" => Len(ev) = 2 * Len(SuccessfulInOrder)

\* three items, the second failed in analysis, the email of the third failed
C39_Witness ==
    /\ spc = "closed" /\ total = 3
    /\ SuccessfulItems = {1, 3} /\ results[3].email_error /\ ~results[1].email_error
    /\ Len(EmailPhaseEvents) = 4
    /\ EmailPhaseEvents[3].status = "generating_email" /\ EmailPhaseEvents[3].item = 3
    /\ EmailPhaseEvents[4].status = "complete" /\ EmailPhaseEvents[4].item = 3

(* ------------------------- job-description claims ---------------------- *)

\* C40: the job text looked up for the application email of an acceptable
\* item is the text of that item's own job description, also when two job
\* descriptions of the batch carry the same source.
C40_OwnJobText ==
    \A k \in 1..Len(lookups) :
       lookups[k].job_text = job_descriptions[lookups[k].job].text

====
